---- MODULE Spec2Model ----
(***************************************************************************)
(* A model of the dashboard's time-series cache request                    *)
(* (dashboard/spa/timeseries-cache-request.js): the slice planner          *)
(* getSlices_, the in-flight coalescer and result generator                *)
(* generateResults, the lazily fired TimeseriesSlice with its retry        *)
(* policy, and the cache reader and writer.  The range algebra lives in    *)
(* range.js, of which the repository holds only the tests; it is modelled  *)
(* from the documented semantics and the truth tables of those tests.      *)
(*                                                                         *)
(* Revisions are small naturals.  A closed range [a, b] is a record; the   *)
(* reals between two revisions are accounted for by the "doubled points"   *)
(* 2a .. 2b, so that [0,1] and [2,3] together do not cover [0,3].          *)
(***************************************************************************)
EXTENDS Integers, Sequences, FiniteSets, TLC

\* ------------------------------------------------------------------ bounds

\* Revisions of the planner's inputs are 0 .. MaxRev.
MaxRev == 2

\* Longest stored range list per column in the planner's inputs.
MaxRanges == 2

\* A single request is made at a time from 0 to MaxTime.
MaxTime == 1

\* Between requests made one after another the clock runs up to MaxClock,
\* past the missing-timeseries retry window.
MaxClock == 3

\* The rows of a response whose rows come in any order.
MaxRows == 2

\* The length of the arrays handed to a helper function called on its own.
MaxLen == 3

\* ------------------------------------------------------- program constants

MAX_RETRIES == 3
HTTP_NOT_FOUND == 404
SERVER_ERROR == 500
HTTP_OK == 200
\* Some other non-OK status of the backend (any status but 200, 404, 500).
HTTP_FORBIDDEN == 403

\* The missing-timeseries retry window, 2.8 days, in ticks of the clock
\* (one tick stands for 1.4 days).
MISSING_TIMESERIES_RETRY_MS == 2

\* Column names.
Columns == {"revision", "avg", "std", "alert", "histogram"}

\* ---------------------------------------------------------- range algebra

EmptyRange == [isEmpty |-> TRUE, min |-> 0, max |-> 0]

fromExplicitRange(lo, hi) == [isEmpty |-> FALSE, min |-> lo, max |-> hi]

duration(r) == IF r.isEmpty THEN 0 ELSE r.max - r.min

Max2(a, b) == IF a >= b THEN a ELSE b

Min2(a, b) == IF a <= b THEN a ELSE b

findIntersection(a, b) ==
  IF a.isEmpty \/ b.isEmpty THEN EmptyRange
  ELSE LET lo == Max2(a.min, b.min)
           hi == Min2(a.max, b.max)
       IN IF hi < lo THEN EmptyRange ELSE fromExplicitRange(lo, hi)

\* An argument that is not given, and the outcome of a call that throws.
undefined == [ undefined |-> TRUE ]

Thrown == [ thrown |-> TRUE ]

\* A findDifference that keeps a piece of duration 0.
DifferenceKeepingPoints(a, b) ==
  IF a = undefined \/ b = undefined THEN Thrown
  ELSE IF a.isEmpty THEN << >>
  ELSE IF b.isEmpty THEN << a >>
  ELSE LET i == findIntersection(a, b)
       IN IF i.isEmpty THEN << a >>
          ELSE (IF i.min - a.min >= 0
                  THEN << fromExplicitRange(a.min, i.min) >> ELSE << >>)
               \o
               (IF a.max - i.max >= 0
                  THEN << fromExplicitRange(i.max, a.max) >> ELSE << >>)

\* a \ b as a list of 0, 1 or 2 ranges; a piece of duration 0 is left out.
\* The call throws when an argument is not given.
findDifference(a, b) ==
  IF a = undefined \/ b = undefined THEN Thrown
  ELSE IF a.isEmpty THEN << >>
  ELSE IF b.isEmpty THEN << a >>
  ELSE LET i == findIntersection(a, b)
       IN IF i.isEmpty THEN << a >>
          ELSE (IF i.min - a.min > 0
                  THEN << fromExplicitRange(a.min, i.min) >> ELSE << >>)
               \o
               (IF a.max - i.max > 0
                  THEN << fromExplicitRange(i.max, a.max) >> ELSE << >>)

\* The doubled points of a range: 2*min .. 2*max (the empty set when empty).
Pts(r) == IF r.isEmpty THEN {} ELSE (2 * r.min) .. (2 * r.max)

SeqToSet(s) == { s[i] : i \in 1 .. Len(s) }

PtsOfList(list) == UNION { Pts(list[i]) : i \in 1 .. Len(list) }

\* Range.toJSON / Range.fromDict: the serialized form kept in the ranges
\* store is << >> for the empty range and << min, max >> otherwise.
toJSON(r) == IF r.isEmpty THEN << >> ELSE << r.min, r.max >>

fromDict(d) == IF Len(d) = 0 THEN EmptyRange ELSE fromExplicitRange(d[1], d[2])

\* ------------------------------------------------------------ state

VARIABLES
  store,        \* the persistent store of each identity: ranges, data, metadata
  now,          \* the clock (new Date())
  registry,     \* IN_PROGRESS_REQUESTS
  request,      \* each request's parsed fields (columns_, revisionRange_, db)
  pc,           \* where each request's generateResults is
  cacheResult,  \* the memoized cacheResultPromise of each request
  plan,         \* the memoized slicesPromise of each request
  gen,          \* the locals of each request's generateResults
  fetch,        \* each TimeseriesSlice's retry_, responsePromise_ and calls
  writeQueue,   \* the writes scheduled with scheduleWrite, not yet run
  call          \* a helper function called on its own: name, arguments, result

vars == << store, now, registry, request, pc, cacheResult, plan, gen, fetch,
           writeQueue, call >>

\* No helper function has been called on its own.
NoCall == [ op |-> "none" ]

\* Requests in construction order, and the identities (database names).
Reqs == {1, 2}

DBs == {"db1", "db2"}

NoRequest == [absent |-> TRUE]

NoResult == [absent |-> TRUE]

NoPlan == [absent |-> TRUE]

\* ------------------------------------------------------------ cache reader

\* Rows of the data store whose key lies in the request range, by key.
RECURSIVE RowsAscending(_, _)
RowsAscending(data, keys) ==
  IF keys = {} THEN << >>
  ELSE LET k == CHOOSE x \in keys : \A y \in keys : x <= y
       IN << data[k] >> \o RowsAscending(data, keys \ {k})

getDataPoints_(data, revisionRange_) ==
  RowsAscending(data, { k \in DOMAIN data :
                          k >= revisionRange_.min /\ k <= revisionRange_.max })

\* The stored range lists of the requested columns, revision left out.
getRanges_(ranges, columns_) ==
  [ col \in (columns_ \ {"revision"}) |->
      IF col \in DOMAIN ranges THEN ranges[col] ELSE << >> ]

\* Indices of the stored ranges of a list that intersect the request range.
Intersecting(rangeDicts, revisionRange_) ==
  { i \in 1 .. Len(rangeDicts) :
      ~ findIntersection(fromDict(rangeDicts[i]), revisionRange_).isEmpty }

\* For each column the first stored range that intersects the request range,
\* clipped to it; a column with no such range is absent from the map.
getAvailableRangeByCol_(rangesByCol, revisionRange_) ==
  [ col \in { c \in DOMAIN rangesByCol :
                Intersecting(rangesByCol[c], revisionRange_) # {} } |->
      LET hits == Intersecting(rangesByCol[col], revisionRange_)
          first == CHOOSE i \in hits : \A j \in hits : i <= j
      IN findIntersection(fromDict(rangesByCol[col][first]), revisionRange_) ]

readDatabase_(db, req) ==
  LET availableRangeByCol ==
        getAvailableRangeByCol_(getRanges_(db.ranges, req.columns_),
                                req.revisionRange_)
      hasData == DOMAIN availableRangeByCol # {}
  IN [ missingTimestamp |-> db.metadata.missingTimestamp,
       availableRangeByCol |-> availableRangeByCol,
       hasData |-> hasData,
       data |-> IF hasData THEN getDataPoints_(db.data, req.revisionRange_)
                ELSE << >> ]

\* ------------------------------------------------------------ slice planner

\* A planned slice: its revision range and which column collection it was
\* created with.  The histogram slices get an array of their own,
\* ['revision', 'histogram']; every other slice of a request is handed the
\* one Set `columns` of getSlices_, which they share.
HistogramColumns == {"revision", "histogram"}

createSlice_(revisionRange, kind) ==
  [ revisionRange |-> revisionRange, kind |-> kind ]

SlicesFor(missingRanges, kind) ==
  [ i \in 1 .. Len(missingRanges) |-> createSlice_(missingRanges[i], kind) ]

\* The histogram slices: one per sub-range histogram's availability misses.
HistogramSlices(columns_, revisionRange_, availableRangeByCol) ==
  IF "histogram" \in columns_
    THEN SlicesFor(IF "histogram" \in DOMAIN availableRangeByCol
                     THEN findDifference(revisionRange_,
                                         availableRangeByCol["histogram"])
                     ELSE << revisionRange_ >>,
                   "histogram")
    ELSE << >>

\* The Set `columns` once the columns available for the whole request range
\* have been deleted from it.
RemainingColumns(columns_, revisionRange_, availableRangeByCol) ==
  { col \in columns_ \ {"histogram"} :
      \/ col \in {"revision", "alert"}
      \/ col \notin DOMAIN availableRangeByCol
      \/ duration(revisionRange_) # duration(availableRangeByCol[col]) }

\* The sub-range for which every remaining column is available.
RECURSIVE IntersectAll(_, _, _)
IntersectAll(range, cols, availableRangeByCol) ==
  IF cols = {} THEN range
  ELSE LET col == CHOOSE c \in cols : TRUE
       IN IntersectAll(findIntersection(range, availableRangeByCol[col]),
                       cols \ {col}, availableRangeByCol)

CommonAvailableRange(columns, revisionRange_, availableRangeByCol) ==
  IF \E col \in columns \ {"revision"} : col \notin DOMAIN availableRangeByCol
    THEN EmptyRange
    ELSE IntersectAll(revisionRange_, columns \ {"revision"},
                      availableRangeByCol)

\* With exactly one column left in the Set the planner returns a new, empty
\* Set: the slices pushed so far are not in it.
AllCachedShortCircuit(columns) == Cardinality(columns) = 1

\* A planner that ignores the cache: one slice over the whole request range.
PlanWithoutCache(req, cache) ==
  [ columns |-> req.columns_,
    slice |-> << createSlice_(req.revisionRange_, "main") >> ]

getSlices_(req, cache) ==
  LET availableRangeByCol ==
        IF cache.hasData THEN cache.availableRangeByCol ELSE << >>
      columns == RemainingColumns(req.columns_, req.revisionRange_,
                                  availableRangeByCol)
      histograms == HistogramSlices(req.columns_, req.revisionRange_,
                                    availableRangeByCol)
      missingRanges ==
        findDifference(req.revisionRange_,
                       CommonAvailableRange(columns, req.revisionRange_,
                                            availableRangeByCol))
  IN [ columns |-> columns,
       slice |-> IF AllCachedShortCircuit(columns) THEN << >>
                 ELSE histograms \o SlicesFor(missingRanges, "main") ]

\* The columns a slice of request r carries now.
ColumnsOf(p, i) ==
  IF p.slice[i].kind = "histogram" THEN HistogramColumns ELSE p.columns

\* ------------------------------------------------------------ row merger

\* The binary search of findLowIndexInSortedArray on the key revision;
\* indices are those of the JavaScript array (0-based).
RECURSIVE BinarySearch(_, _, _, _, _)
BinarySearch(ary, loVal, low, high, hitPos) ==
  IF low > high THEN (IF hitPos # -1 THEN hitPos ELSE low)
  ELSE LET i == (low + high) \div 2
           comparison == ary[i + 1].revision - loVal
       IN IF comparison < 0 THEN BinarySearch(ary, loVal, i + 1, high, hitPos)
          ELSE IF comparison > 0 THEN BinarySearch(ary, loVal, low, i - 1, hitPos)
          ELSE BinarySearch(ary, loVal, low, i - 1, i)

findLowIndexInSortedArray(ary, loVal) ==
  IF Len(ary) = 0 THEN 1
  ELSE BinarySearch(ary, loVal, 0, Len(ary) - 1, -1)

\* Object.assign(entry, obj): the fields of obj over those of entry.
ObjectAssign(entry, obj) ==
  [ c \in DOMAIN entry \cup DOMAIN obj |->
      IF c \in DOMAIN obj THEN obj[c] ELSE entry[c] ]

\* A splice that takes out the row at the index: merged.splice(index, 1, obj)
SpliceOver(merged, index, obj) ==
  SubSeq(merged, 1, index) \o << obj >> \o SubSeq(merged, index + 2, Len(merged))

\* merged.splice(index, 0, obj)
Splice(merged, index, obj) ==
  SubSeq(merged, 1, index) \o << obj >> \o SubSeq(merged, index + 1, Len(merged))

\* A merge that pushes every row at the end.
MergeOnePushed(merged, obj) == Append(merged, obj)

MergeOne(merged, obj) ==
  LET index == findLowIndexInSortedArray(merged, obj.revision)
  IN IF index >= Len(merged) THEN Append(merged, obj)
     ELSE IF merged[index + 1].revision = obj.revision
            THEN [ k \in 1 .. Len(merged) |->
                     IF k = index + 1 THEN ObjectAssign(merged[k], obj)
                     ELSE merged[k] ]
            ELSE Splice(merged, index, obj)

RECURSIVE mergeObjectArrays(_, _)
mergeObjectArrays(merged, objects) ==
  IF Len(objects) = 0 THEN merged
  ELSE mergeObjectArrays(MergeOne(merged, Head(objects)), Tail(objects))

\* The rows of a response that carry a revision within the request range.
RECURSIVE FilterRows(_, _)
FilterRows(rows, revisionRange_) ==
  IF Len(rows) = 0 THEN << >>
  ELSE LET d == Head(rows)
           keep == /\ "revision" \in DOMAIN d
                   /\ d.revision >= revisionRange_.min
                   /\ d.revision <= revisionRange_.max
       IN (IF keep THEN << d >> ELSE << >>) \o FilterRows(Tail(rows), revisionRange_)

\* A purge that deletes nothing.
PurgeNothing(mergedData, revisionRange_) == mergedData

\* delete datum.alert on the rows of mergedData within the request range.
PurgeAlerts(mergedData, revisionRange_) ==
  [ i \in 1 .. Len(mergedData) |->
      LET datum == mergedData[i]
      IN IF datum.revision >= revisionRange_.min /\ datum.revision <= revisionRange_.max
           THEN [ c \in DOMAIN datum \ {"alert"} |-> datum[c] ]
           ELSE datum ]

\* ------------------------------------------------------------ coalescer

\* A Set of slice indices in insertion order.
RECURSIVE Ascending(_)
Ascending(S) ==
  IF S = {} THEN << >>
  ELSE LET k == CHOOSE x \in S : \A y \in S : x <= y
       IN << k >> \o Ascending(S \ {k})

\* A coalescer that takes any overlap of the two ranges for coverage.
Overlaps(slice, otherSlice) ==
  ~ findIntersection(slice.revisionRange, otherSlice.revisionRange).isEmpty

\* The peer slice's range covers this slice's range: the test of the code is
\* that the intersection is not shorter than this slice's range.
Covers(slice, otherSlice) ==
  ~ (duration(findIntersection(slice.revisionRange, otherSlice.revisionRange))
       < duration(slice.revisionRange))

\* One pass of the inner loop body: slice i of this request against slice j
\* of the peer `other`.  st holds this request's shared column Set, its Set
\* of slices, the borrowed slices and whether a TypeError was thrown.  The
\* columns of a histogram slice are an array: it has no has(), delete() or
\* size.
CoalescePair(st, mine, i, other, otherId, j) ==
  LET slice == mine.slice[i]
      otherSlice == other.slice[j]
      sliceColumns == IF slice.kind = "histogram" THEN HistogramColumns
                      ELSE st.columns
      nonRevision == sliceColumns \ {"revision"}
      common == nonRevision \cap other.columns
  IN IF st.threw \/ ~ Covers(slice, otherSlice) THEN st
     ELSE IF otherSlice.kind = "histogram" /\ nonRevision # {}
       THEN [st EXCEPT !.threw = TRUE]
     ELSE IF slice.kind = "histogram"
       THEN IF otherSlice.kind # "histogram" /\ common # {}
              THEN [st EXCEPT !.threw = TRUE]
              ELSE st
     ELSE LET columns == IF otherSlice.kind = "histogram" THEN st.columns
                         ELSE st.columns \ common
              borrowed == otherSlice.kind # "histogram" /\ common # {}
          IN [ columns |-> columns,
               slices |-> IF Cardinality(columns) = 1 THEN st.slices \ {i}
                          ELSE st.slices,
               matchingSlices |->
                 IF borrowed /\ << otherId, j >> \notin SeqToSet(st.matchingSlices)
                   THEN Append(st.matchingSlices, << otherId, j >>)
                   ELSE st.matchingSlices,
               threw |-> FALSE ]

RECURSIVE CoalesceInner(_, _, _, _, _, _)
CoalesceInner(st, mine, i, other, otherId, js) ==
  IF Len(js) = 0 THEN st
  ELSE CoalesceInner(CoalescePair(st, mine, i, other, otherId, Head(js)),
                     mine, i, other, otherId, Tail(js))

RECURSIVE CoalesceOuter(_, _, _, _, _)
CoalesceOuter(st, mine, is, other, otherId) ==
  IF Len(is) = 0 THEN st
  ELSE CoalesceOuter(CoalesceInner(st, mine, Head(is), other, otherId,
                                   Ascending(other.slices)),
                     mine, Tail(is), other, otherId)

\* The callback of findInProgressRequest for a peer with the same database
\* name, once the peer's slicesPromise has resolved.
CoalesceWith(mine, matchingSlices, other, otherId) ==
  CoalesceOuter([ columns |-> mine.columns, slices |-> mine.slices,
                  matchingSlices |-> matchingSlices, threw |-> FALSE ],
                mine, Ascending(mine.slices), other, otherId)

\* ------------------------------------------------------------ cache writer

\* Range.mergeIntoArray: the sorted, coalesced union of the sorted list and
\* the range; ranges that overlap or border are merged into one.
RECURSIVE CoalesceRanges(_, _)
CoalesceRanges(done, rest) ==
  IF Len(rest) = 0 THEN done
  ELSE IF Len(done) > 0 /\ Head(rest).min <= done[Len(done)].max
    THEN CoalesceRanges(
           [done EXCEPT ![Len(done)] =
              fromExplicitRange(@.min, Max2(@.max, Head(rest).max))],
           Tail(rest))
    ELSE CoalesceRanges(Append(done, Head(rest)), Tail(rest))

mergeIntoArray(range, sortedRanges) ==
  LET before == { i \in 1 .. Len(sortedRanges) : sortedRanges[i].min < range.min }
      n == Cardinality(before)
  IN CoalesceRanges(<< >>,
                    SubSeq(sortedRanges, 1, n) \o << range >>
                      \o SubSeq(sortedRanges, n + 1, Len(sortedRanges)))

\* A writeData_ that puts each row in place of the stored row of its
\* revision.
RECURSIVE WriteDataReplacing(_, _)
WriteDataReplacing(data, rows) ==
  IF Len(rows) = 0 THEN data
  ELSE LET datum == Head(rows)
       IN WriteDataReplacing([ k \in DOMAIN data \cup {datum.revision} |->
                                 IF k = datum.revision THEN datum ELSE data[k] ],
                             Tail(rows))

\* writeData_: each row is merged over the stored row of its revision.
RECURSIVE writeData_(_, _)
writeData_(data, rows) ==
  IF Len(rows) = 0 THEN data
  ELSE LET datum == Head(rows)
           prev == IF datum.revision \in DOMAIN data THEN data[datum.revision]
                   ELSE << >>
           next == ObjectAssign(prev, datum)
       IN writeData_([ k \in DOMAIN data \cup {datum.revision} |->
                         IF k = datum.revision THEN next ELSE data[k] ],
                     Tail(rows))

\* A writeRanges_ that extends the list of every requested column.
EveryColumn(columns_) == columns_

\* The columns whose stored range list writeRanges_ extends.
RangeColumns(columns_) == columns_ \ {"revision", "alert"}

\* A writeRanges_ that leaves the list of a column already stored as it is.
WriteRangesOnce(ranges, rows, req) ==
  LET revisionRange == fromExplicitRange(req.revisionRange_.min,
                                         rows[Len(rows)].revision)
  IN [ col \in DOMAIN ranges \cup RangeColumns(req.columns_) |->
         IF col \in DOMAIN ranges THEN ranges[col]
         ELSE << toJSON(revisionRange) >> ]

\* A writeRanges_ that stores the written range in place of the stored list.
WriteRangesReplaced(ranges, rows, req) ==
  LET revisionRange == fromExplicitRange(req.revisionRange_.min,
                                         rows[Len(rows)].revision)
  IN [ col \in DOMAIN ranges \cup RangeColumns(req.columns_) |->
         IF col \in RangeColumns(req.columns_)
           THEN << toJSON(revisionRange) >>
           ELSE ranges[col] ]

\* A writeRanges_ that puts the written range at the end of the stored list.
WriteRangesAppended(ranges, rows, req) ==
  LET revisionRange == fromExplicitRange(req.revisionRange_.min,
                                         rows[Len(rows)].revision)
  IN [ col \in DOMAIN ranges \cup RangeColumns(req.columns_) |->
         IF col \in RangeColumns(req.columns_)
           THEN (IF col \in DOMAIN ranges THEN ranges[col] ELSE << >>)
                  \o << toJSON(revisionRange) >>
           ELSE ranges[col] ]

\* writeRanges_: [request.min, last row's revision] is merged into the
\* stored list of every requested column but revision and alert.
writeRanges_(ranges, rows, req) ==
  LET revisionRange == fromExplicitRange(req.revisionRange_.min,
                                         rows[Len(rows)].revision)
      prevRanges(col) ==
        IF col \in DOMAIN ranges
          THEN [ i \in 1 .. Len(ranges[col]) |-> fromDict(ranges[col][i]) ]
          ELSE << >>
      newRanges(col) == mergeIntoArray(revisionRange, prevRanges(col))
  IN [ col \in DOMAIN ranges \cup RangeColumns(req.columns_) |->
         IF col \in RangeColumns(req.columns_)
           THEN [ i \in 1 .. Len(newRanges(col)) |-> toJSON(newRanges(col)[i]) ]
           ELSE ranges[col] ]

\* writeMetadata_ and updateAccessTime_: every key of the written object
\* but data is put; only missingTimestamp is kept track of here.
writeMetadata_(metadata, written, time) ==
  [ missingTimestamp |->
      IF "missingTimestamp" \in DOMAIN written THEN written.missingTimestamp
      ELSE metadata.missingTimestamp,
    accessTime |-> << time >> ]

\* writeDatabase: one read-write transaction.
writeDatabase(db, write, req, time) ==
  [ ranges |-> IF write.hasData THEN writeRanges_(db.ranges, write.data, req)
               ELSE db.ranges,
    data |-> IF write.hasData THEN writeData_(db.data, write.data) ELSE db.data,
    metadata |-> writeMetadata_(db.metadata, write.metadata, time) ]

\* ------------------------------------------------------------ initial values

NoTimestamp == << >>

EmptyStore ==
  [ ranges |-> << >>, data |-> << >>,
    metadata |-> [ missingTimestamp |-> NoTimestamp, accessTime |-> NoTimestamp ] ]

\* A TimeseriesSlice as constructed: retry_ = 0, responsePromise_ undefined.
\* started counts the fetch sequences begun, calls the remote calls sent, and
\* history lists the statuses the backend answered.  resolvedAt is the rank
\* of the slice among the resolved responses, 0 while it is unresolved.
NewSlice ==
  [ retry_ |-> 0, fired |-> FALSE, inFlight |-> FALSE, started |-> 0,
    calls |-> 0, history |-> << >>, sent |-> {}, response |-> NoResult,
    resolvedAt |-> 0 ]

\* The locals of generateResults before it runs.  emitted lists what was
\* yielded, scheduled the writes handed to scheduleWrite, observed the
\* results the for-await loop received, and coalesced the peers whose slices
\* the coalescing callback went through.  raceFrom is the number of responses
\* that had resolved when the loop last took a result or started, and
\* delayed tells that the generator has since been suspended at a yield.
NewGenerator ==
  [ mergedData |-> << >>, columns |-> {}, matchingSlices |-> << >>,
    visited |-> {}, coalesced |-> {}, sliceResponses |-> << >>, emitted |-> << >>,
    final |-> "cache", scheduled |-> << >>, observed |-> {},
    raceFrom |-> 0, delayed |-> FALSE ]

\* ------------------------------------------------------------ actions

\* cacheResultPromise: the first access reads the database in one read-only
\* transaction; later accesses return the same result.
ReadCache(r) ==
  /\ request[r] # NoRequest
  /\ cacheResult[r] = NoResult
  /\ cacheResult' = [cacheResult EXCEPT
                       ![r] = readDatabase_(store[request[r].db], request[r])]
  /\ UNCHANGED << store, now, registry, request, pc, plan, gen, fetch,
                  writeQueue >>

\* slicesPromise: the first access plans the slices from the cache result;
\* later accesses return the same Set.
Plan(r) ==
  /\ cacheResult[r] # NoResult
  /\ plan[r] = NoPlan
  /\ LET p == getSlices_(request[r], cacheResult[r])
     IN /\ plan' = [plan EXCEPT
                      ![r] = [ columns |-> p.columns, slice |-> p.slice,
                               slices |-> 1 .. Len(p.slice) ]]
        /\ fetch' = [ id \in DOMAIN fetch \cup { << r, i >> : i \in 1 .. Len(p.slice) } |->
                        IF id \in DOMAIN fetch THEN fetch[id] ELSE NewSlice ]
  /\ UNCHANGED << store, now, registry, request, pc, cacheResult, gen,
                  writeQueue >>

\* The request is constructed: it is parsed and registered as in progress.
Construct(r, req) ==
  /\ request[r] = NoRequest
  /\ \A q \in Reqs : q < r => request[q] # NoRequest
  /\ request' = [request EXCEPT ![r] = req]
  /\ registry' = registry \cup {r}
  /\ pc' = [pc EXCEPT ![r] = "start"]
  /\ UNCHANGED << store, now, cacheResult, plan, gen, fetch, writeQueue >>

\* The source of the cached snapshot; a slice snapshot names its slice.
FromCache == << 0, 0 >>

\* A snapshot as the consumer of the generator receives it.
Snapshot(source, error, columns, data) ==
  [ source |-> source, error |-> error, columns |-> columns, data |-> data ]

\* A generator that is never held back by a missingTimestamp.
NeverRecentlyMissing(cache, time) == FALSE

\* The cached result carries a missingTimestamp younger than the retry window.
RecentlyMissing(cache, time) ==
  /\ cache.missingTimestamp # NoTimestamp
  /\ cache.missingTimestamp[1] > time - MISSING_TIMESERIES_RETRY_MS

\* generateResults up to the await of slicesPromise: the cached snapshot is
\* yielded when the cache result has data, and the generator returns when
\* the timeseries was recently missing.
GenStart(r) ==
  /\ pc[r] = "start"
  /\ cacheResult[r] # NoResult
  /\ gen' = [gen EXCEPT
               ![r].mergedData = IF cacheResult[r].hasData THEN cacheResult[r].data
                                 ELSE << >>,
               ![r].emitted = IF cacheResult[r].hasData
                                THEN << Snapshot(FromCache, FALSE, {}, cacheResult[r].data) >>
                                ELSE << >>]
  /\ pc' = [pc EXCEPT ![r] = IF RecentlyMissing(cacheResult[r], now)
                               THEN "returned" ELSE "coalesce"]
  /\ UNCHANGED << store, now, registry, request, cacheResult, plan, fetch,
                  writeQueue >>

\* findInProgressRequest visits the registered requests in registration
\* order, this one left out.
PeersLeft(r) == (registry \ gen[r].visited) \ {r}

NextPeer(r) == CHOOSE p \in PeersLeft(r) : \A q \in PeersLeft(r) : p <= q

\* other.databaseName_ is set once the peer has opened its database.
SameDatabase(r, p) ==
  /\ cacheResult[p] # NoResult
  /\ request[p].db = request[r].db

\* One call of the callback handed to findInProgressRequest.
Coalesce(r) ==
  /\ pc[r] = "coalesce"
  /\ plan[r] # NoPlan
  /\ PeersLeft(r) # {}
  /\ LET p == NextPeer(r)
     IN IF ~ SameDatabase(r, p)
          THEN /\ gen' = [gen EXCEPT ![r].visited = @ \cup {p}]
               /\ UNCHANGED << plan, pc >>
          ELSE /\ plan[p] # NoPlan
               /\ LET st == CoalesceWith(plan[r], gen[r].matchingSlices, plan[p], p)
                  IN /\ plan' = [plan EXCEPT ![r].columns = st.columns,
                                             ![r].slices = st.slices]
                     /\ gen' = [gen EXCEPT ![r].visited = @ \cup {p},
                                           ![r].coalesced = @ \cup {p},
                                           ![r].matchingSlices = st.matchingSlices]
                     /\ pc' = [pc EXCEPT ![r] = IF st.threw THEN "threw" ELSE @]
  /\ UNCHANGED << store, now, registry, request, cacheResult, fetch, writeQueue >>

\* A getter that calls fetch_ on every access.
FetchOnEveryAccess(id, slice) ==
  [slice EXCEPT !.fired = TRUE, !.inFlight = TRUE, !.started = @ + 1,
                !.calls = @ + 1,
                !.sent = ColumnsOf(plan[id[1]], id[2])]

\* get responsePromise: the first access calls fetch_, which copies the
\* slice's columns and sends the first remote call.
responsePromise(id, slice) ==
  IF slice.fired THEN slice
  ELSE [slice EXCEPT !.fired = TRUE, !.inFlight = TRUE, !.started = @ + 1,
                     !.calls = @ + 1,
                     !.sent = ColumnsOf(plan[id[1]], id[2])]

\* The slices whose responses the request awaits: its own, then the borrowed.
SliceResponses(r) ==
  [ k \in 1 .. Cardinality(plan[r].slices) |-> << r, Ascending(plan[r].slices)[k] >> ]
    \o gen[r].matchingSlices

\* The position in the order of resolution of the response resolved last
\* (0 while none has resolved).
LastResolved ==
  IF DOMAIN fetch = {} THEN 0
  ELSE CHOOSE n \in { fetch[id].resolvedAt : id \in DOMAIN fetch } :
         \A id \in DOMAIN fetch : fetch[id].resolvedAt <= n

\* Positions in the order of resolution are kept relative: the responses a
\* loop still awaits keep their order and are numbered from 2, a resolved
\* response no loop awaits is numbered 1, and the position at which each loop
\* last called Promise.race moves with them.
Renumber(f, g, pcs) ==
  LET live == { id \in DOMAIN f :
                  /\ f[id].resolvedAt > 0
                  /\ \E r \in Reqs : /\ pcs[r] = "race"
                                     /\ id \in SeqToSet(g[r].sliceResponses) }
      rank(n) == IF n = 0 THEN 0
                 ELSE 1 + Cardinality({ f[id].resolvedAt : id \in
                                          { l \in live : f[l].resolvedAt <= n } })
  IN [ fetch |-> [ id \in DOMAIN f |->
                     [f[id] EXCEPT !.resolvedAt =
                        IF id \in live THEN rank(@) ELSE IF @ = 0 THEN 0 ELSE 1] ],
       gen |-> [ r \in Reqs |->
                   [g[r] EXCEPT !.raceFrom = IF pcs[r] = "race" THEN rank(@) ELSE 0,
                                !.delayed = pcs[r] = "race" /\ @] ] ]

\* After the last peer: the response promise of every own and borrowed slice
\* is taken and raceAllPromises starts.
StartRace(r) ==
  /\ pc[r] = "coalesce"
  /\ plan[r] # NoPlan
  /\ PeersLeft(r) = {}
  /\ LET ids == SliceResponses(r)
         started == Renumber(
           [ id \in DOMAIN fetch |->
               IF id \in SeqToSet(ids) THEN responsePromise(id, fetch[id])
               ELSE fetch[id] ],
           [gen EXCEPT ![r].sliceResponses = ids, ![r].columns = {},
                       ![r].raceFrom = LastResolved],
           [pc EXCEPT ![r] = "race"])
     IN /\ fetch' = started.fetch
        /\ gen' = started.gen
  /\ pc' = [pc EXCEPT ![r] = "race"]
  /\ UNCHANGED << store, now, registry, request, cacheResult, plan, writeQueue >>

\* The backend's table: a row at each of these revisions, every column of
\* which holds the value 1.
BackendRevisions == {0, 1, 2}

Statuses == {HTTP_OK, HTTP_NOT_FOUND, SERVER_ERROR, HTTP_FORBIDDEN}

\* The rows the backend returns for a range, normalize()d with the columns
\* that were sent.
normalize(revisionRange, columns) ==
  LET revs == Ascending({ k \in BackendRevisions :
                            k >= revisionRange.min /\ k <= revisionRange.max })
  IN [ i \in 1 .. Len(revs) |->
         [ c \in columns |-> IF c = "revision" THEN revs[i] ELSE 1 ] ]

ErrorResponse(status) ==
  [ error |-> TRUE, status |-> status, columns |-> {}, data |-> << >> ]

\* A fetch_ whose retry test lets a 500 through once more.
RetryOnceMore(id, slice, status) ==
  IF status = SERVER_ERROR /\ slice.retry_ <= MAX_RETRIES
    THEN [slice EXCEPT !.retry_ = @ + 1, !.calls = @ + 1,
                       !.history = Append(@, status)]
  ELSE [slice EXCEPT !.inFlight = FALSE,
                     !.history = Append(@, status),
                     !.response = ErrorResponse(status)]

\* A fetch_ that resolves with the 500 it has retried, whatever the retry
\* returned.
SurfacesRetriedError(id, slice, status) ==
  IF status = SERVER_ERROR /\ slice.retry_ < MAX_RETRIES
    THEN [slice EXCEPT !.retry_ = @ + 1, !.calls = @ + 1,
                       !.history = Append(@, status)]
  ELSE [slice EXCEPT !.inFlight = FALSE,
                     !.history = Append(@, status),
                     !.response =
                       IF slice.retry_ > 0 \/ status # HTTP_OK
                         THEN ErrorResponse(IF status = HTTP_OK THEN SERVER_ERROR
                                            ELSE status)
                         ELSE [ error |-> FALSE, status |-> status,
                                columns |-> slice.sent,
                                data |-> normalize(
                                  plan[id[1]].slice[id[2]].revisionRange,
                                  slice.sent) ]]

\* fetch_ after the await of fetch(): the backend has answered the call in
\* flight.  A 500 with retries left calls fetch_ again, which copies the
\* slice's columns anew.
fetch_(id, slice, status) ==
  IF status # HTTP_OK
    THEN IF status = SERVER_ERROR /\ slice.retry_ < MAX_RETRIES
           THEN [slice EXCEPT !.retry_ = @ + 1, !.calls = @ + 1,
                              !.history = Append(@, status),
                              !.sent = ColumnsOf(plan[id[1]], id[2])]
           ELSE [slice EXCEPT !.inFlight = FALSE,
                              !.history = Append(@, status),
                              !.response = ErrorResponse(status)]
    ELSE [slice EXCEPT !.inFlight = FALSE,
                       !.history = Append(@, status),
                       !.response =
                         [ error |-> FALSE, status |-> status,
                           columns |-> slice.sent,
                           data |-> normalize(plan[id[1]].slice[id[2]].revisionRange,
                                              slice.sent) ]]

BackendAnswer(id, status) ==
  /\ fetch[id].inFlight
  /\ LET slice == fetch_(id, fetch[id], status)
         answered == Renumber(
           [fetch EXCEPT ![id] = IF slice.response # NoResult
                                   THEN [slice EXCEPT !.resolvedAt = LastResolved + 1]
                                   ELSE slice],
           gen, pc)
     IN /\ fetch' = answered.fetch
        /\ gen' = answered.gen
  /\ UNCHANGED << store, now, registry, request, pc, cacheResult, plan, writeQueue >>

\* The backend answers the call in flight with a table of its own choosing:
\* rows at the given revisions, in the given order.
BackendAnswerRows(id, revisions) ==
  /\ fetch[id].inFlight
  /\ LET slice == [fetch[id] EXCEPT
                     !.inFlight = FALSE,
                     !.history = Append(@, HTTP_OK),
                     !.response =
                       [ error |-> FALSE, status |-> HTTP_OK,
                         columns |-> fetch[id].sent,
                         data |-> [ i \in 1 .. Len(revisions) |->
                                      [ c \in fetch[id].sent |->
                                          IF c = "revision" THEN revisions[i] ELSE 1 ] ] ],
                     !.resolvedAt = LastResolved + 1]
         answered == Renumber([fetch EXCEPT ![id] = slice], gen, pc)
     IN /\ fetch' = answered.fetch
        /\ gen' = answered.gen
  /\ UNCHANGED << store, now, registry, request, pc, cacheResult, plan, writeQueue >>

RemoveAt(seq, k) == SubSeq(seq, 1, k - 1) \o SubSeq(seq, k + 1, Len(seq))

\* A missingTimestamp write stamped with the epoch.
MissingWriteAtEpoch(r, time) ==
  [ req |-> r, hasData |-> FALSE, data |-> << >>,
    metadata |-> [ missingTimestamp |-> << 0 >> ] ]

\* scheduleWrite({missingTimestamp: new Date().toISOString()})
MissingWrite(r, time) ==
  [ req |-> r, hasData |-> FALSE, data |-> << >>,
    metadata |-> [ missingTimestamp |-> << time >> ] ]

\* One turn of the for-await loop over raceAllPromises: a resolved response
\* is taken and handled.
HandleResponse(r, id, result, g) ==
  IF result.error /\ result.status = HTTP_NOT_FOUND
    THEN [ gen |-> [g EXCEPT !.scheduled = Append(@, MissingWrite(r, now))],
           write |-> << MissingWrite(r, now) >>,
           columns |-> result.columns,
           threw |-> FALSE ]
  ELSE IF result.error
    THEN [ gen |-> g, write |-> << >>, columns |-> result.columns,
           threw |-> TRUE ]
  ELSE LET purged == IF "alert" \in result.columns
                       THEN PurgeAlerts(g.mergedData, request[r].revisionRange_)
                       ELSE g.mergedData
           columns == result.columns \cup g.columns
           merged == mergeObjectArrays(
                       purged, FilterRows(result.data, request[r].revisionRange_))
       IN [ gen |-> [g EXCEPT !.mergedData = merged,
                              !.columns = columns,
                              !.final = "response",
                              !.emitted = Append(@, Snapshot(id, result.error, columns, merged))],
            write |-> << >>,
            columns |-> columns,
            threw |-> FALSE ]

\* What the loop received from a slice.
Observed(id, result) ==
  [ id |-> id, error |-> result.error, status |-> result.status,
    data |-> result.data ]

\* Promise.race over the remaining responses, called when `at` responses
\* had resolved: of the responses already resolved then, the first in the
\* array wins; if none was, the next one to resolve wins.
Winner(r, at) ==
  LET ids == gen[r].sliceResponses
      settled == { k \in 1 .. Len(ids) : fetch[ids[k]].resolvedAt \in 1 .. at }
      later == { k \in 1 .. Len(ids) : fetch[ids[k]].resolvedAt > at }
  IN IF settled # {}
       THEN { k \in settled : \A j \in settled : k <= j }
       ELSE { k \in later :
                \A j \in later :
                  fetch[ids[k]].resolvedAt <= fetch[ids[j]].resolvedAt }

\* raceAllPromises calls Promise.race at once after the loop started or
\* skipped a 404, and whenever the consumer resumes the generator after a
\* yield.
RaceWinners(r) ==
  IF gen[r].delayed
    THEN UNION { Winner(r, at) : at \in gen[r].raceFrom .. LastResolved }
    ELSE Winner(r, gen[r].raceFrom)

Consume(r, k) ==
  /\ pc[r] = "race"
  /\ k \in RaceWinners(r)
  /\ LET id == gen[r].sliceResponses[k]
         result == fetch[id].response
     IN /\ result # NoResult
        /\ LET h == HandleResponse(r, id, result,
                      [gen[r] EXCEPT !.sliceResponses = RemoveAt(@, k),
                                     !.observed = @ \cup {Observed(id, result)},
                                     !.raceFrom = LastResolved,
                                     !.delayed =
                                       ~ (result.error
                                            /\ result.status = HTTP_NOT_FOUND)])
               pcs == [pc EXCEPT ![r] = IF h.threw THEN "threw" ELSE @]
               consumed == Renumber(
                 [fetch EXCEPT ![id].response.columns = h.columns],
                 [gen EXCEPT ![r] = h.gen], pcs)
           IN /\ gen' = consumed.gen
              /\ writeQueue' = writeQueue \o h.write
              /\ fetch' = consumed.fetch
              /\ pc' = pcs
  /\ UNCHANGED << store, now, registry, request, cacheResult, plan >>

\* The write of the final result: the last response with the merged rows,
\* or the cache result when no response was merged.
FinalWrite(r) ==
  [ req |-> r, hasData |-> TRUE, data |-> gen[r].mergedData,
    metadata |-> IF gen[r].final = "cache"
                   THEN [ missingTimestamp |-> cacheResult[r].missingTimestamp ]
                   ELSE << >> ]

HasFinalData(r) ==
  /\ gen[r].final = "response" \/ cacheResult[r].hasData
  /\ Len(gen[r].mergedData) > 0

\* The loop is over: the final result is scheduled for writing if it has rows.
Finish(r) ==
  /\ pc[r] = "race"
  /\ gen[r].sliceResponses = << >>
  /\ IF HasFinalData(r)
       THEN /\ writeQueue' = Append(writeQueue, FinalWrite(r))
            /\ gen' = [gen EXCEPT ![r].scheduled = Append(@, FinalWrite(r)),
                                  ![r].raceFrom = 0, ![r].delayed = FALSE]
       ELSE /\ gen' = [gen EXCEPT ![r].raceFrom = 0, ![r].delayed = FALSE]
            /\ UNCHANGED writeQueue
  /\ pc' = [pc EXCEPT ![r] = "returned"]
  /\ UNCHANGED << store, now, registry, request, cacheResult, plan, fetch >>

\* sendResults_: the generator has returned and every snapshot was sent.
onResponded(r) ==
  /\ pc[r] = "returned"
  /\ registry' = registry \ {r}
  /\ pc' = [pc EXCEPT ![r] = "done"]
  /\ UNCHANGED << store, now, request, cacheResult, plan, gen, fetch, writeQueue >>

\* The oldest scheduled write runs as one read-write transaction.
RunWrite ==
  /\ Len(writeQueue) > 0
  /\ LET write == Head(writeQueue)
         req == request[write.req]
     IN store' = [store EXCEPT ![req.db] = writeDatabase(@, write, req, now)]
  /\ writeQueue' = Tail(writeQueue)
  /\ UNCHANGED << now, registry, request, pc, cacheResult, plan, gen, fetch >>

\* ------------------------------------------------ the planner on its own

AllRanges == { << a, b >> : a \in 0 .. MaxRev, b \in 0 .. MaxRev }

\* Stored range lists: sorted by min, no two ranges overlapping or touching.
RangeLists ==
  { l \in UNION { [ 1 .. n -> { d \in AllRanges : d[1] <= d[2] } ] : n \in 0 .. MaxRanges } :
      \A i \in 1 .. Len(l) - 1 : l[i][2] < l[i + 1][1] }

StorableColumns == {"avg", "std", "histogram"}

\* A store holding the given range lists, with a row at the end of every
\* stored range (a write-back stores [request.min, lastRow.revision]).
StoreWithRanges(lists) ==
  LET cols == { c \in DOMAIN lists : Len(lists[c]) > 0 }
      endsOf(c) == { lists[c][i][2] : i \in 1 .. Len(lists[c]) }
      ends == UNION { endsOf(c) : c \in cols }
  IN [ ranges |-> [ c \in cols |-> lists[c] ],
       data |-> [ k \in ends |->
                    [ col \in {"revision"} \cup { c \in cols : k \in endsOf(c) } |->
                        IF col = "revision" THEN k ELSE 0 ] ],
       metadata |-> [ missingTimestamp |-> NoTimestamp, accessTime |-> NoTimestamp ] ]

PlanRequests ==
  { [ columns_ |-> cols, revisionRange_ |-> fromExplicitRange(lo, hi), db |-> "db1" ] :
      cols \in SUBSET Columns \ {{}}, lo \in 0 .. MaxRev, hi \in 0 .. MaxRev }

InitPlan ==
  /\ \E req \in { q \in PlanRequests : q.revisionRange_.min <= q.revisionRange_.max } :
       /\ request = [ r \in Reqs |-> IF r = 1 THEN req ELSE NoRequest ]
       /\ \E lists \in [ req.columns_ \cap StorableColumns -> RangeLists ] :
            store = [ d \in DBs |-> IF d = "db1" THEN StoreWithRanges(lists)
                                    ELSE EmptyStore ]
  /\ now = 0
  /\ registry = {1}
  /\ pc = [ r \in Reqs |-> IF r = 1 THEN "start" ELSE "absent" ]
  /\ cacheResult = [ r \in Reqs |-> NoResult ]
  /\ plan = [ r \in Reqs |-> NoPlan ]
  /\ gen = [ r \in Reqs |-> NewGenerator ]
  /\ fetch = << >>
  /\ writeQueue = << >>
  /\ call = NoCall

NextPlan ==
  /\ \E r \in Reqs : ReadCache(r) \/ Plan(r)
  /\ UNCHANGED call

SpecPlan == InitPlan /\ [][NextPlan]_vars

\* ------------------------------------------------ one request

Quiet ==
  /\ request[1] = NoRequest
  /\ registry = {}
  /\ pc = [ r \in Reqs |-> "absent" ]
  /\ cacheResult = [ r \in Reqs |-> NoResult ]
  /\ plan = [ r \in Reqs |-> NoPlan ]
  /\ gen = [ r \in Reqs |-> NewGenerator ]
  /\ fetch = << >>
  /\ writeQueue = << >>
  /\ call = NoCall

GenColumnSets ==
  { {"revision"}, {"revision", "avg"}, {"revision", "avg", "histogram"},
    {"revision", "avg", "alert"} }

GenRanges ==
  { fromExplicitRange(0, 2), fromExplicitRange(1, 2), fromExplicitRange(0, 3) }

GenRequests ==
  { [ columns_ |-> cols, revisionRange_ |-> range, db |-> "db1" ] :
      cols \in GenColumnSets, range \in GenRanges }

\* The store of db1 is empty, or holds what a request for avg over [1, 2]
\* wrote back.
GenStores ==
  { EmptyStore, StoreWithRanges([ c \in {"avg"} |-> << << 1, 2 >> >> ]) }

InitGen ==
  /\ \E db \in GenStores :
       store = [ d \in DBs |-> IF d = "db1" THEN db ELSE EmptyStore ]
  /\ now \in 0 .. MaxTime
  /\ request = [ r \in Reqs |-> NoRequest ]
  /\ Quiet

NextGen ==
  /\ \/ \E req \in GenRequests : Construct(1, req)
     \/ \E r \in Reqs : ReadCache(r)
     \/ \E r \in Reqs : Plan(r)
     \/ \E r \in Reqs : GenStart(r)
     \/ \E r \in Reqs : StartRace(r)
     \/ \E id \in DOMAIN fetch, status \in Statuses : BackendAnswer(id, status)
     \/ \E r \in Reqs : \E k \in 1 .. Len(gen[r].sliceResponses) : Consume(r, k)
     \/ \E r \in Reqs : Finish(r)
     \/ \E r \in Reqs : onResponded(r)
     \/ RunWrite
  /\ UNCHANGED call

Spec == InitGen /\ [][NextGen]_vars

\* ------------------------------------------------ responses in any order

\* Tables of up to MaxRows rows at revisions of the request range, in any
\* order and with repeats.
Tables == UNION { [ 1 .. n -> 0 .. MaxRev ] : n \in 0 .. MaxRows }

\* The store a request for revision, avg and alert over [0, MaxRev] leaves
\* when the backend had a row at every revision.
StoreWithAlerts ==
  [ ranges |-> [ c \in {"avg"} |-> << << 0, MaxRev >> >> ],
    data |-> [ k \in 0 .. MaxRev |-> [ revision |-> k, avg |-> 0, alert |-> 0 ] ],
    metadata |-> [ missingTimestamp |-> NoTimestamp, accessTime |-> NoTimestamp ] ]

\* One request over [0, MaxRev]: for avg on a store holding at most one
\* range for avg, for avg and histogram on an empty store, or for avg and
\* alert on a store whose rows carry alerts.
MergeInputs ==
  { [ columns_ |-> {"revision", "avg"},
      db |-> StoreWithRanges([ c \in {"avg"} |-> list ]) ] :
      list \in { l \in RangeLists : Len(l) <= 1 } }
  \cup { [ columns_ |-> {"revision", "avg", "histogram"}, db |-> EmptyStore ],
         [ columns_ |-> {"revision", "avg", "alert"}, db |-> StoreWithAlerts ] }

InitMerge ==
  /\ \E in \in MergeInputs :
       /\ store = [ d \in DBs |-> IF d = "db1" THEN in.db ELSE EmptyStore ]
       /\ request = [ r \in Reqs |->
                        IF r = 1 THEN [ columns_ |-> in.columns_,
                                        revisionRange_ |-> fromExplicitRange(0, MaxRev),
                                        db |-> "db1" ]
                        ELSE NoRequest ]
  /\ now = 0
  /\ registry = {1}
  /\ pc = [ r \in Reqs |-> IF r = 1 THEN "start" ELSE "absent" ]
  /\ cacheResult = [ r \in Reqs |-> NoResult ]
  /\ plan = [ r \in Reqs |-> NoPlan ]
  /\ gen = [ r \in Reqs |-> NewGenerator ]
  /\ fetch = << >>
  /\ writeQueue = << >>
  /\ call = NoCall

NextMerge ==
  /\ \/ \E r \in Reqs : ReadCache(r)
     \/ \E r \in Reqs : Plan(r)
     \/ \E r \in Reqs : GenStart(r)
     \/ \E r \in Reqs : StartRace(r)
     \/ \E id \in DOMAIN fetch, table \in Tables : BackendAnswerRows(id, table)
     \/ \E r \in Reqs : \E k \in 1 .. Len(gen[r].sliceResponses) : Consume(r, k)
     \/ \E r \in Reqs : Finish(r)
  /\ UNCHANGED call

SpecMerge == InitMerge /\ [][NextMerge]_vars

\* ------------------------------------------------ one write-back on any store

\* Tables of at most one row.
ShortTables == { t \in Tables : Len(t) <= 1 }

\* One request for avg over any range, on a store holding any range list for
\* avg: what earlier write-backs may have left; or one request for avg and
\* alert over any range on a store whose rows carry alerts.
InitWrite ==
  /\ \/ /\ \E list \in RangeLists :
            store = [ d \in DBs |->
                        IF d = "db1" THEN StoreWithRanges([ c \in {"avg"} |-> list ])
                        ELSE EmptyStore ]
        /\ \E lo \in 0 .. MaxRev, hi \in 0 .. MaxRev :
            /\ lo <= hi
            /\ request = [ r \in Reqs |->
                             IF r = 1 THEN [ columns_ |-> {"revision", "avg"},
                                             revisionRange_ |-> fromExplicitRange(lo, hi),
                                             db |-> "db1" ]
                             ELSE NoRequest ]
     \/ /\ store = [ d \in DBs |-> IF d = "db1" THEN StoreWithAlerts ELSE EmptyStore ]
        /\ \E lo \in 0 .. MaxRev, hi \in 0 .. MaxRev :
            /\ lo <= hi
            /\ request = [ r \in Reqs |->
                             IF r = 1 THEN [ columns_ |-> {"revision", "avg", "alert"},
                                             revisionRange_ |-> fromExplicitRange(lo, hi),
                                             db |-> "db1" ]
                             ELSE NoRequest ]
  /\ now = 0
  /\ registry = {1}
  /\ pc = [ r \in Reqs |-> IF r = 1 THEN "start" ELSE "absent" ]
  /\ cacheResult = [ r \in Reqs |-> NoResult ]
  /\ plan = [ r \in Reqs |-> NoPlan ]
  /\ gen = [ r \in Reqs |-> NewGenerator ]
  /\ fetch = << >>
  /\ writeQueue = << >>
  /\ call = NoCall

NextWrite ==
  /\ \/ \E r \in Reqs : ReadCache(r)
     \/ \E r \in Reqs : Plan(r)
     \/ \E r \in Reqs : GenStart(r)
     \/ \E r \in Reqs : StartRace(r)
     \/ \E id \in DOMAIN fetch, table \in ShortTables : BackendAnswerRows(id, table)
     \/ \E r \in Reqs : \E k \in 1 .. Len(gen[r].sliceResponses) : Consume(r, k)
     \/ \E r \in Reqs : Finish(r)
     \/ RunWrite
  /\ UNCHANGED call

SpecWrite == InitWrite /\ [][NextWrite]_vars

\* ------------------------------------------------ helper functions on their own

\* SliceGroupTrack.buildSubRows_.  A slice is its start and its end.
\* insertedSlice.bounds(slice): the slice lies within insertedSlice.
bounds(insertedSlice, slice) ==
  insertedSlice.start <= slice.start /\ insertedSlice.end >= slice.end

\* ops.sort: the indices of the slices by start, ties by index.
RECURSIVE SortOps(_, _)
SortOps(slices, left) ==
  IF left = {} THEN << >>
  ELSE LET first == CHOOSE ix \in left :
                      \A iy \in left :
                        \/ slices[ix].start < slices[iy].start
                        \/ slices[ix].start = slices[iy].start /\ ix <= iy
       IN << first >> \o SortOps(slices, left \ {first})

\* subRows[j + 1].push(slice), after pushing rows until row j + 1 exists
\* (rows are numbered from 1 here).
PushInto(subRows, j, slice) ==
  [ k \in 1 .. (IF Len(subRows) >= j THEN Len(subRows) ELSE j) |->
      IF k = j THEN (IF k <= Len(subRows) THEN Append(subRows[k], slice)
                     ELSE << slice >>)
      ELSE IF k <= Len(subRows) THEN subRows[k] ELSE << >> ]

\* The walk from the deepest row up for one slice: the slice goes below the
\* first last-of-row slice that bounds it, to row 0 if there is none, and
\* nowhere if it started before a last-of-row slice and none bounds it.
RECURSIVE Fit(_, _, _, _)
Fit(subRows, slice, j, inserted) ==
  IF j = 0
    THEN IF inserted THEN subRows ELSE PushInto(subRows, 1, slice)
  ELSE IF Len(subRows[j]) = 0 THEN Fit(subRows, slice, j - 1, inserted)
  ELSE LET insertedSlice == subRows[j][Len(subRows[j])]
       IN IF bounds(insertedSlice, slice) THEN PushInto(subRows, j + 1, slice)
          ELSE Fit(subRows, slice, j - 1,
                   inserted \/ slice.start < insertedSlice.start)

RECURSIVE FitAll(_, _, _)
FitAll(subRows, slices, ops) ==
  IF Len(ops) = 0 THEN subRows
  ELSE FitAll(Fit(subRows, slices[Head(ops)], Len(subRows), FALSE), slices,
              Tail(ops))

buildSubRows_(slices) ==
  IF Len(slices) = 0 THEN << >>
  ELSE FitAll(<< << >> >>, slices, SortOps(slices, 1 .. Len(slices)))

\* The arguments of the calls: ranges over 0 .. MaxRev + 1, the empty range
\* and a missing argument; arrays of up to MaxLen rows sorted by revision;
\* lists of up to MaxLen slices.
CallRanges ==
  { r \in { fromExplicitRange(lo, hi) :
              lo \in 0 .. MaxRev + 1, hi \in 0 .. MaxRev + 1 } : r.min <= r.max }
  \cup { EmptyRange, undefined }

SortedArrays ==
  { ary \in UNION { [ 1 .. n -> { [ revision |-> k ] : k \in 0 .. MaxRev + 1 } ] :
                      n \in 0 .. MaxLen } :
      \A i \in 1 .. Len(ary) - 1 : ary[i].revision <= ary[i + 1].revision }

TrackSlices ==
  { [ start |-> t, end |-> u ] : t \in 0 .. MaxRev + 1, u \in 0 .. MaxRev + 1 }

SliceLists ==
  UNION { [ 1 .. n -> { x \in TrackSlices : x.start <= x.end } ] : n \in 0 .. MaxLen }

FindDifferenceCall(a, b) ==
  /\ call' = [ op |-> "findDifference", args |-> << a, b >>,
               result |-> findDifference(a, b) ]
  /\ UNCHANGED << store, now, registry, request, pc, cacheResult, plan, gen,
                  fetch, writeQueue >>

FindLowIndexCall(ary, loVal) ==
  /\ call' = [ op |-> "findLowIndexInSortedArray", args |-> << ary, loVal >>,
               result |-> findLowIndexInSortedArray(ary, loVal) ]
  /\ UNCHANGED << store, now, registry, request, pc, cacheResult, plan, gen,
                  fetch, writeQueue >>

BuildSubRowsCall(slices) ==
  /\ call' = [ op |-> "buildSubRows_", args |-> << slices >>,
               result |-> buildSubRows_(slices) ]
  /\ UNCHANGED << store, now, registry, request, pc, cacheResult, plan, gen,
                  fetch, writeQueue >>

InitCalls ==
  /\ store = [ d \in DBs |-> EmptyStore ]
  /\ now = 0
  /\ request = [ r \in Reqs |-> NoRequest ]
  /\ Quiet

\* One helper function is called, once.
NextCalls ==
  /\ call = NoCall
  /\ \/ \E a \in CallRanges, b \in CallRanges : FindDifferenceCall(a, b)
     \/ \E ary \in SortedArrays, loVal \in 0 .. MaxRev + 1 :
          FindLowIndexCall(ary, loVal)
     \/ \E slices \in SliceLists : BuildSubRowsCall(slices)

SpecCalls == InitCalls /\ [][NextCalls]_vars

\* ------------------------------------------------ requests one after another

\* The generator of request r has ended, by returning or by throwing, and
\* the scheduled writes have run.
Over(r) == pc[r] \in {"done", "threw"} /\ writeQueue = << >>

\* A request is constructed once the earlier ones are over.  The locals of an
\* ended generator are garbage, and so are the slices of a request that is
\* no longer registered.
Arrive(r, req) ==
  /\ request[r] = NoRequest
  /\ \A q \in Reqs : q < r => Over(q)
  /\ request' = [request EXCEPT ![r] = req]
  /\ registry' = registry \cup {r}
  /\ pc' = [pc EXCEPT ![r] = "start"]
  /\ gen' = [ q \in Reqs |-> NewGenerator ]
  /\ plan' = [ q \in Reqs |-> IF q \in registry THEN plan[q] ELSE NoPlan ]
  /\ fetch' = [ id \in { i \in DOMAIN fetch : i[1] \in registry } |-> fetch[id] ]
  /\ UNCHANGED << store, now, cacheResult, writeQueue >>

\* The clock advances between two requests (a tick is 1.4 days).
Tick ==
  /\ now < MaxClock
  /\ \E r \in Reqs : request[r] # NoRequest
  /\ \A r \in Reqs : request[r] # NoRequest => Over(r)
  /\ now' = now + 1
  /\ UNCHANGED << store, registry, request, pc, cacheResult, plan, gen, fetch,
                  writeQueue >>

SeqColumnSets ==
  { {"revision"}, {"revision", "avg"}, {"revision", "avg", "histogram"},
    {"revision", "avg", "alert"} }

SeqRanges == { fromExplicitRange(0, 2), fromExplicitRange(1, 2) }

SeqRequests ==
  { [ columns_ |-> cols, revisionRange_ |-> range, db |-> "db1" ] :
      cols \in SeqColumnSets, range \in SeqRanges }

SeqStatuses == {HTTP_OK, HTTP_NOT_FOUND, HTTP_FORBIDDEN}

InitSeq ==
  /\ \E db \in GenStores :
       store = [ d \in DBs |-> IF d = "db1" THEN db ELSE EmptyStore ]
  /\ now = 0
  /\ request = [ r \in Reqs |-> NoRequest ]
  /\ Quiet

NextSeq ==
  /\ \/ \E r \in Reqs, req \in SeqRequests : Arrive(r, req)
     \/ \E r \in Reqs : ReadCache(r)
     \/ \E r \in Reqs : Plan(r)
     \/ \E r \in Reqs : GenStart(r)
     \/ \E r \in Reqs : Coalesce(r)
     \/ \E r \in Reqs : StartRace(r)
     \/ \E id \in DOMAIN fetch, status \in SeqStatuses : BackendAnswer(id, status)
     \/ \E r \in Reqs : \E k \in 1 .. Len(gen[r].sliceResponses) : Consume(r, k)
     \/ \E r \in Reqs : Finish(r)
     \/ \E r \in Reqs : onResponded(r)
     \/ RunWrite
     \/ Tick
  /\ UNCHANGED call

SpecSeq == InitSeq /\ [][NextSeq]_vars

\* ------------------------------------------------ requests in flight together

CoColumnSets == { {"revision", "avg"}, {"revision", "avg", "std"} }

CoRanges ==
  { fromExplicitRange(0, 2), fromExplicitRange(1, 3), fromExplicitRange(0, 3) }

\* Requests of one identity (db1), and one request of another identity.
CoRequests ==
  { [ columns_ |-> cols, revisionRange_ |-> range, db |-> "db1" ] :
      cols \in CoColumnSets, range \in CoRanges }
  \cup { [ columns_ |-> {"revision", "avg"},
           revisionRange_ |-> fromExplicitRange(0, 3), db |-> "db2" ] }

\* The backend answers the calls of these requests with data or with 404.
CoStatuses == {HTTP_OK, HTTP_NOT_FOUND}

NextCo ==
  /\ \/ \E r \in Reqs, req \in CoRequests : Construct(r, req)
     \/ \E r \in Reqs : ReadCache(r)
     \/ \E r \in Reqs : Plan(r)
     \/ \E r \in Reqs : GenStart(r)
     \/ \E r \in Reqs : Coalesce(r)
     \/ \E r \in Reqs : StartRace(r)
     \/ \E id \in DOMAIN fetch, status \in CoStatuses : BackendAnswer(id, status)
     \/ \E r \in Reqs : \E k \in 1 .. Len(gen[r].sliceResponses) : Consume(r, k)
     \/ \E r \in Reqs : Finish(r)
     \/ \E r \in Reqs : onResponded(r)
     \/ RunWrite
  /\ UNCHANGED call

SpecCo == InitSeq /\ [][NextCo]_vars

\* ------------------------------------------------------------ claims: planner

\* The doubled points of the request range over which column col is cached.
StoredPts(r, col) ==
  LET ranges == store[request[r].db].ranges
  IN IF col \in DOMAIN ranges
       THEN UNION { Pts(findIntersection(fromDict(ranges[col][i]),
                                         request[r].revisionRange_)) :
                      i \in 1 .. Len(ranges[col]) }
       ELSE {}

\* The doubled points covered by the planned slices of r that carry col.
PlannedPts(r, col) ==
  UNION { Pts(plan[r].slice[i].revisionRange) :
            i \in { j \in plan[r].slices : col \in ColumnsOf(plan[r], j) } }

\* C1: after planning, every requested column other than revision and alert
\* is covered over the whole request range by its cached ranges together
\* with the planned slices that carry it.
C1_PlanCoversRequest ==
  \A r \in Reqs :
    plan[r] # NoPlan =>
      \A col \in request[r].columns_ \ {"revision", "alert"} :
        StoredPts(r, col) \cup PlannedPts(r, col) = Pts(request[r].revisionRange_)

\* The ranges of the planned slices of r that were created with the
\* histogram columns, in planning order.
PlannedHistogramRanges(r) ==
  LET idx == { i \in plan[r].slices : ColumnsOf(plan[r], i) = HistogramColumns }
  IN { plan[r].slice[i].revisionRange : i \in idx }

\* C2: with histogram requested, the planned slice set holds one
\* {revision, histogram} slice for each sub-range of the request that
\* histogram's cached availability misses, whatever the other columns are.
C2_HistogramSlicesPlanned ==
  \A r \in Reqs :
    (plan[r] # NoPlan /\ "histogram" \in request[r].columns_) =>
      LET avail == cacheResult[r].availableRangeByCol
          missing == IF "histogram" \in DOMAIN avail
                       THEN findDifference(request[r].revisionRange_, avail["histogram"])
                       ELSE << request[r].revisionRange_ >>
      IN /\ PlannedHistogramRanges(r) = SeqToSet(missing)
         /\ Cardinality({ i \in plan[r].slices :
                            ColumnsOf(plan[r], i) = HistogramColumns }) = Len(missing)

\* ------------------------------------------------------------ claims: fully cached

\* The slices the generator of r has asked for a response.
Awaited(r) ==
  SeqToSet(gen[r].sliceResponses) \cup { o.id : o \in gen[r].observed }

\* Column col was read from the cache as available over the whole range of r.
AvailableOverRequest(r, col) ==
  /\ col \in DOMAIN cacheResult[r].availableRangeByCol
  /\ Pts(cacheResult[r].availableRangeByCol[col]) = Pts(request[r].revisionRange_)

\* Every requested column other than revision was read as available over the
\* whole request range, and alert is not requested.
FullyCached(r) ==
  /\ request[r] # NoRequest
  /\ cacheResult[r] # NoResult
  /\ "alert" \notin request[r].columns_
  /\ \A col \in request[r].columns_ \ {"revision"} : AvailableOverRequest(r, col)

\* No slice is planned, no slice is asked for its response, no remote call
\* is sent for r, and the only snapshot is the cached one.
OnlyCachedSnapshot(r) ==
  /\ plan[r] # NoPlan => plan[r].slice = << >>
  /\ \A id \in DOMAIN fetch : id[1] = r => ~ fetch[id].fired
  /\ Awaited(r) = {}
  /\ pc[r] # "threw"
  /\ Len(gen[r].emitted) <= 1
  /\ pc[r] = "returned" =>
       gen[r].emitted = << Snapshot(FromCache, FALSE, {}, cacheResult[r].data) >>

\* C3 as stated: a request whose requested columns other than revision are
\* all cached over the full range plans nothing, fetches nothing and emits
\* exactly one snapshot, the cached one.
C3_AsStated ==
  \A r \in Reqs : FullyCached(r) => OnlyCachedSnapshot(r)

\* C3: a request that asks for at least one column other than revision, all
\* of them cached over the full request range and alert not among them,
\* plans no slice, sends no remote call and emits exactly one snapshot, the
\* cached one; so does a second identical request after the first wrote back
\* rows reaching the request's max revision.
C3_FullyCachedNoFetch ==
  \A r \in Reqs :
    (FullyCached(r) /\ request[r].columns_ # {"revision"}) => OnlyCachedSnapshot(r)

\* The second of two identical requests has returned; the first found the
\* range not fully cached and the second found it fully cached.
C3_Witness ==
  /\ request[1] # NoRequest
  /\ request[2] = request[1]
  /\ request[2].columns_ # {"revision"}
  /\ cacheResult[1] # NoResult
  /\ ~ FullyCached(1)
  /\ FullyCached(2)
  /\ pc[2] = "returned"
  /\ Len(gen[2].emitted) = 1
  /\ Len(gen[2].emitted[1].data) = 3

\* ------------------------------------------------------------ claims: retries

AllServerErrors(h) == \A i \in 1 .. Len(h) : h[i] = SERVER_ERROR

\* C7: a slice sends at most 4 remote calls; a further call follows an
\* answer only if the answer was a 500 and fewer than 3 retries had been
\* made; any other non-OK answer, and the 500 that answers the fourth call,
\* resolve the slice with an error object of that status and no further
\* call; a fired slice with no call outstanding is resolved.
C7_BoundedRetries ==
  \A id \in DOMAIN fetch :
    LET s == fetch[id]
        h == s.history
    IN /\ s.calls <= 4
       /\ s.calls = Len(h) + (IF s.inFlight THEN 1 ELSE 0)
       /\ ~ s.fired => s.calls = 0
       /\ \A i \in 1 .. Len(h) :
            IF i < s.calls
              THEN h[i] = SERVER_ERROR /\ i - 1 < 3
              ELSE /\ ~ s.inFlight
                   /\ h[i] # SERVER_ERROR \/ i = 4
                   /\ h[i] # HTTP_OK =>
                        s.response.error /\ s.response.status = h[i]
                   /\ h[i] = HTTP_OK => ~ s.response.error
       /\ (s.fired /\ ~ s.inFlight) => s.response # NoResult
       /\ s.inFlight => s.response = NoResult

\* A slice answered 500 four times is resolved with the 500 error object.
C7_Witness ==
  \E id \in DOMAIN fetch :
    /\ fetch[id].history = << SERVER_ERROR, SERVER_ERROR, SERVER_ERROR, SERVER_ERROR >>
    /\ fetch[id].calls = 4
    /\ fetch[id].response # NoResult
    /\ fetch[id].response.error
    /\ fetch[id].response.status = SERVER_ERROR

\* The backend answered the slice 500 at most three times, then with success.
RetriedThenSucceeded(id) ==
  LET h == fetch[id].history
  IN /\ Len(h) >= 1
     /\ Len(h) - 1 <= 3
     /\ h[Len(h)] = HTTP_OK
     /\ AllServerErrors(SubSeq(h, 1, Len(h) - 1))

\* The positions of the snapshots that request r emitted for slice id.
SnapshotsFor(r, id) ==
  { i \in 1 .. Len(gen[r].emitted) : gen[r].emitted[i].source = id }

\* Every row of rows inside the range is in data, column by column.
Carries(data, rows, range) ==
  \A j \in 1 .. Len(rows) :
    (rows[j].revision >= range.min /\ rows[j].revision <= range.max) =>
      \E k \in 1 .. Len(data) :
        /\ data[k].revision = rows[j].revision
        /\ \A c \in DOMAIN rows[j] : c \in DOMAIN data[k] /\ data[k][c] = rows[j][c]

C9_ErrorObjectSurfaced ==
  \A r \in Reqs : \A o \in gen[r].observed :
    (o.error /\ o.status # HTTP_NOT_FOUND) =>
      /\ pc[r] # "threw"
      /\ \E i \in SnapshotsFor(r, o.id) : gen[r].emitted[i].error

\* C10: the turn of the loop that receives a 404 error object schedules a
\* write of missingTimestamp = the current time, emits nothing, does not
\* throw, and leaves the loop running over the remaining slice responses.
C10_NotFoundSkipped ==
  [][ \A r \in Reqs : \A o \in gen'[r].observed \ gen[r].observed :
        (o.error /\ o.status = HTTP_NOT_FOUND) =>
          /\ writeQueue' =
               Append(writeQueue,
                      [ req |-> r, hasData |-> FALSE, data |-> << >>,
                        metadata |-> [ missingTimestamp |-> << now >> ] ])
          /\ gen'[r].emitted = gen[r].emitted
          /\ pc'[r] = "race"
          /\ SeqToSet(gen'[r].sliceResponses) =
               SeqToSet(gen[r].sliceResponses) \ {o.id} ]_vars

\* A request received a 404 at time 1, scheduled the write, and then emitted
\* the snapshot of its other slice.
C10_Witness ==
  \E r \in Reqs : \E o \in gen[r].observed :
    /\ o.error /\ o.status = HTTP_NOT_FOUND
    /\ now = 1
    /\ Len(gen[r].scheduled) >= 1
    /\ gen[r].scheduled[1].metadata.missingTimestamp = << 1 >>
    /\ Len(gen[r].emitted) = 1
    /\ gen[r].emitted[1].source # o.id
    /\ gen[r].emitted[1].source # FromCache
    /\ pc[r] = "returned"

\* ------------------------------------------------------------ claims: coalescing

\* Range outer contains every revision of range inner.
Contains(outer, inner) == Pts(inner) \subseteq Pts(outer)

\* The non-revision columns that slice i of r and slice j of p both carry.
CarriedByBoth(r, i, p, j) ==
  (ColumnsOf(plan[r], i) \cap ColumnsOf(plan[p], j)) \ {"revision"}

\* C4: in the coalescing of r with a live peer p of the same identity, for
\* each slice i of r and each slice j of p whose range covers that of i, the
\* non-revision columns carried by both are removed from i and j joins the
\* borrowed set, and a slice left with revision alone is dropped; when the
\* race starts, r awaits its remaining own slices and every borrowed slice,
\* and no dropped slice is fetched.
C4_CoalescingBorrowsCoveringSlices ==
  [][ \A r \in Reqs :
        /\ \A p \in gen'[r].coalesced \ gen[r].coalesced :
             \A i \in plan[r].slices : \A j \in plan[p].slices :
               ( /\ Contains(plan[p].slice[j].revisionRange,
                             plan[r].slice[i].revisionRange)
                 /\ CarriedByBoth(r, i, p, j) # {} ) =>
                   /\ ColumnsOf(plan'[r], i) \cap CarriedByBoth(r, i, p, j) = {}
                   /\ << p, j >> \in SeqToSet(gen'[r].matchingSlices)
                   /\ ColumnsOf(plan'[r], i) = {"revision"} => i \notin plan'[r].slices
        /\ (pc[r] = "coalesce" /\ pc'[r] = "race") =>
             /\ SeqToSet(gen'[r].sliceResponses) =
                  { << r, i >> : i \in plan[r].slices }
                    \cup SeqToSet(gen[r].matchingSlices)
             /\ \A i \in 1 .. Len(plan[r].slice) :
                  (i \notin plan[r].slices /\ ~ fetch[<< r, i >>].fired) =>
                    ~ fetch'[<< r, i >>].fired ]_vars

\* Requests r and p have the same identity and the same columns, both read
\* an empty cache, and r went through the slices of p while p was live.
CoalescedOnEmptyCache(r, p) ==
  /\ r # p
  /\ request[r] # NoRequest /\ request[p] # NoRequest
  /\ request[r].db = request[p].db
  /\ request[r].columns_ = request[p].columns_
  /\ cacheResult[r] # NoResult /\ ~ cacheResult[r].hasData
  /\ cacheResult[p] # NoResult /\ ~ cacheResult[p].hasData
  /\ p \in gen[r].coalesced
  /\ pc[r] \in {"race", "returned", "done"}

\* The slices of r for which a remote call was sent.
Fetched(r) == { id \in DOMAIN fetch : id[1] = r /\ fetch[id].calls > 0 }

Accessors(id) == { r \in Reqs : id \in Awaited(r) }

\* C6: the fetch sequence of a slice is started at most once, whoever asks
\* for its response; every request that received the response of a slice
\* received the one response the slice resolved with; a slice nobody asked
\* for its response has sent no remote call.
C6_FetchStartedOnce ==
  \A id \in DOMAIN fetch :
    /\ fetch[id].started <= 1
    /\ fetch[id].fired <=> fetch[id].started = 1
    /\ Accessors(id) = {} =>
         /\ fetch[id].started = 0
         /\ fetch[id].calls = 0
         /\ fetch[id].response = NoResult
    /\ \A r \in Reqs : \A o \in gen[r].observed :
         o.id = id =>
           /\ fetch[id].response # NoResult
           /\ o.error = fetch[id].response.error
           /\ o.status = fetch[id].response.status
           /\ o.data = fetch[id].response.data

\* Both requests have received the response of one slice, which was started
\* once and answered by one remote call, while another slice was never asked
\* and has sent nothing.
C6_Witness ==
  \E id, other \in DOMAIN fetch :
    /\ \A r \in Reqs : \E o \in gen[r].observed : o.id = id
    /\ fetch[id].started = 1
    /\ fetch[id].calls = 1
    /\ Accessors(other) = {}
    /\ fetch[other].calls = 0
    /\ \A r \in Reqs : pc[r] = "returned"

\* ------------------------------------------------------------ claims: missing timeseries

\* Request r, still running, read a missingTimestamp from the cache; the
\* clock stands still while a request runs, so now is the time r was made.
ReadMissingTimestamp(r) ==
  /\ request[r] # NoRequest
  /\ cacheResult[r] # NoResult
  /\ cacheResult[r].missingTimestamp # NoTimestamp
  /\ ~ Over(r)

\* The time since the missingTimestamp that r read, in ticks.
MissingAge(r) == now - cacheResult[r].missingTimestamp[1]

\* C11: a request made less than the retry window (2.8 days, 2 ticks) after
\* the missingTimestamp it reads sends no remote call, asks no slice for a
\* response and emits at most the cached snapshot; a request made more than
\* the window after it awaits its planned slices, every one of them fired.
C11_NegativeResultSuppression ==
  \A r \in Reqs :
    ReadMissingTimestamp(r) =>
      /\ MissingAge(r) < 2 =>
           /\ \A id \in DOMAIN fetch : id[1] = r => ~ fetch[id].fired
           /\ Awaited(r) = {}
           /\ pc[r] \in {"start", "returned", "done"}
           /\ Len(gen[r].emitted) <= 1
           /\ \A i \in 1 .. Len(gen[r].emitted) : gen[r].emitted[i].source = FromCache
      /\ (MissingAge(r) > 2 /\ pc[r] \in {"race", "returned"}) =>
           /\ plan[r] # NoPlan
           /\ \A i \in plan[r].slices : fetch[<< r, i >>].fired

\* The second request was made one tick after the 404 of the first was
\* recorded: it has returned without planning being followed by any fetch.
C11_Witness ==
  /\ ReadMissingTimestamp(2)
  /\ cacheResult[2].missingTimestamp = << 0 >>
  /\ now = 1
  /\ request[2].columns_ # {"revision"}
  /\ plan[2] # NoPlan
  /\ plan[2].slices # {}
  /\ \A i \in plan[2].slices : ~ fetch[<< 2, i >>].fired
  /\ pc[2] = "returned"

\* The second request was made three ticks after the 404 of the first was
\* recorded: its slice was fetched again.
C11_FiresAgain ==
  /\ ReadMissingTimestamp(2)
  /\ cacheResult[2].missingTimestamp = << 0 >>
  /\ now = 3
  /\ plan[2] # NoPlan
  /\ plan[2].slices # {}
  /\ \A i \in plan[2].slices : fetch[<< 2, i >>].calls > 0
  /\ pc[2] = "returned"

\* Request r read a missingTimestamp, merged at least one successful slice
\* response, and the write of its final result has been committed.
FetchedAfterMissing(r) ==
  /\ request[r] # NoRequest
  /\ cacheResult[r] # NoResult
  /\ cacheResult[r].missingTimestamp # NoTimestamp
  /\ gen[r].final = "response"
  /\ \E i \in 1 .. Len(gen[r].scheduled) : gen[r].scheduled[i].hasData
  /\ pc[r] \in {"returned", "done"}
  /\ writeQueue = << >>

\* C12: once a request that found a missingTimestamp in the store has
\* fetched data successfully and its write-back has committed, the stored
\* metadata no longer holds that missingTimestamp.
C12_MissingTimestampCleared ==
  \A r \in Reqs :
    FetchedAfterMissing(r) =>
      store[request[r].db].metadata.missingTimestamp
        # cacheResult[r].missingTimestamp

\* The slice response a step of the loop takes from the responses awaited.
Taken(r) == SeqToSet(gen[r].sliceResponses) \ SeqToSet(gen'[r].sliceResponses)

\* C13: the loop takes the slice responses in the order in which they
\* resolve, whatever the planned order: the response a turn of the loop
\* takes resolved no later than any other response still awaited.
C13_TakenInResolutionOrder ==
  [][ \A r \in Reqs :
        pc[r] = "race" =>
          \A id \in Taken(r) :
            \A other \in SeqToSet(gen[r].sliceResponses) :
              fetch[other].resolvedAt > 0 =>
                fetch[id].resolvedAt <= fetch[other].resolvedAt ]_vars

\* The revisions of a range.
Revisions(range) == IF range.isEmpty THEN {} ELSE range.min .. range.max

\* C14: no two distinct slices planned for a request both carry the same
\* column other than revision and have revision ranges that share a revision.
C14_PlannedSlicesDisjoint ==
  \A r \in Reqs :
    plan[r] # NoPlan =>
      \A i, j \in plan[r].slices :
        (/\ i # j
         /\ (ColumnsOf(plan[r], i) \cap ColumnsOf(plan[r], j)) \ {"revision"} # {})
          => Revisions(plan[r].slice[i].revisionRange)
               \cap Revisions(plan[r].slice[j].revisionRange) = {}

\* The generator of request r has returned after scheduling the write of a
\* final result with rows, and every scheduled write has been committed.
WriteBackCommitted(r) ==
  /\ request[r] # NoRequest
  /\ pc[r] \in {"returned", "done"}
  /\ \E i \in 1 .. Len(gen[r].scheduled) : gen[r].scheduled[i].hasData
  /\ writeQueue = << >>

\* The stored range list of a column holds a range covering [lo, hi].
StoredCovering(db, col, lo, hi) ==
  /\ col \in DOMAIN store[db].ranges
  /\ \E i \in 1 .. Len(store[db].ranges[col]) :
       /\ store[db].ranges[col][i][1] <= lo
       /\ store[db].ranges[col][i][2] >= hi

\* C15: once the write-back of a run that ended with merged rows has been
\* committed, the stored range list of every requested column other than
\* revision and alert holds a range covering [request.min, revision of the
\* last merged row].
C15_WrittenRangeCovers ==
  \A r \in Reqs :
    WriteBackCommitted(r) =>
      \A col \in request[r].columns_ \ {"revision", "alert"} :
        StoredCovering(request[r].db, col, request[r].revisionRange_.min,
                       gen[r].mergedData[Len(gen[r].mergedData)].revision)

\* The second request asked for avg and histogram over [0, 2] when avg was
\* stored on [1, 2]; its final result, ending at revision 2, is written.
C15_Witness ==
  /\ WriteBackCommitted(2)
  /\ request[2].columns_ = {"revision", "avg", "histogram"}
  /\ request[2].revisionRange_ = fromExplicitRange(0, 2)
  /\ cacheResult[2].hasData
  /\ gen[2].final = "response"
  /\ gen[2].mergedData[Len(gen[2].mergedData)].revision = 2
  /\ store["db1"].ranges["avg"] = << << 0, 2 >> >>

\* The rows are strictly ascending by revision.
StrictlyAscending(data) ==
  \A i \in 1 .. Len(data) - 1 : data[i].revision < data[i + 1].revision

\* C16: the data of every snapshot the generator emits is strictly ascending
\* by revision, whatever the order of the rows of the slice responses and
\* whether or not they repeat a revision or carry one that is already merged.
C16_SnapshotsAscending ==
  \A r \in Reqs :
    \A i \in 1 .. Len(gen[r].emitted) : StrictlyAscending(gen[r].emitted[i].data)

\* A first response whose rows come descending and repeat a revision was
\* merged into an empty mergedData, and a later one repeated its revisions.
C16_Witness ==
  /\ cacheResult[1] # NoResult
  /\ ~ cacheResult[1].hasData
  /\ Len(gen[1].emitted) = 2
  /\ \E o \in gen[1].observed :
       /\ o.id = gen[1].emitted[1].source
       /\ Len(o.data) = 2
       /\ o.data[1].revision > o.data[2].revision
  /\ \E o \in gen[1].observed :
       /\ o.id = gen[1].emitted[2].source
       /\ Len(o.data) = 2
       /\ o.data[1].revision = o.data[2].revision
       /\ \E k \in 1 .. Len(gen[1].emitted[1].data) :
            gen[1].emitted[1].data[k].revision = o.data[1].revision

\* C17: whatever requests were made and whatever was written back, the
\* ranges store of an identity holds no entry for alert and none for
\* revision.
C17_NoRangesForAlertOrRevision ==
  \A d \in DBs : DOMAIN store[d].ranges \cap {"alert", "revision"} = {}

\* A request for revision, avg and alert on an empty store has had its final
\* result, rows with alerts, written back.
C17_Witness ==
  /\ WriteBackCommitted(1)
  /\ request[1].columns_ = {"revision", "avg", "alert"}
  /\ ~ cacheResult[1].hasData
  /\ \E k \in DOMAIN store["db1"].data : "alert" \in DOMAIN store["db1"].data[k]
  /\ "avg" \in DOMAIN store["db1"].ranges

\* The planned slices of r that carry alert.
AlertSlices(r) == { i \in plan[r].slices : "alert" \in ColumnsOf(plan[r], i) }

\* C18: a request that lists alert plans a slice carrying alert over the
\* whole request range, whatever is cached, and no slice carrying alert
\* carries a column that is cached over the whole request range.
C18_AlertAlwaysPlanned ==
  \A r \in Reqs :
    (plan[r] # NoPlan /\ "alert" \in request[r].columns_) =>
      /\ PlannedPts(r, "alert") = Pts(request[r].revisionRange_)
      /\ \A i \in AlertSlices(r) :
           \A col \in request[r].columns_ \ {"revision", "alert"} :
             StoredPts(r, col) = Pts(request[r].revisionRange_)
               => col \notin ColumnsOf(plan[r], i)

\* The revision lies within the request range of r.
InRequestRange(r, revision) ==
  /\ revision >= request[r].revisionRange_.min
  /\ revision <= request[r].revisionRange_.max

\* The rows request r received from slice id.
RowsFrom(r, id) ==
  UNION { SeqToSet(o.data) : o \in { x \in gen[r].observed : x.id = id } }

\* C19: in the snapshot emitted for a slice response that was fetched with
\* alert among its columns, a row within the request range carries an alert
\* only if that response has a row with an alert at its revision: the alerts
\* read from the cache are purged before the response is merged.
C19_AlertsOnlyFromResponse ==
  \A r \in Reqs :
    \A i \in 1 .. Len(gen[r].emitted) :
      LET snapshot == gen[r].emitted[i]
      IN (snapshot.source # FromCache /\ "alert" \in fetch[snapshot.source].sent) =>
           \A k \in 1 .. Len(snapshot.data) :
             (/\ InRequestRange(r, snapshot.data[k].revision)
              /\ "alert" \in DOMAIN snapshot.data[k])
               => \E row \in RowsFrom(r, snapshot.source) :
                    /\ row.revision = snapshot.data[k].revision
                    /\ "alert" \in DOMAIN row

\* The cached snapshot carried an alert at every revision; the response of
\* the alert slice supplied one row, and the snapshot emitted for it has a
\* row with that alert and rows whose alert is gone.
C19_Witness ==
  /\ Len(gen[1].emitted) = 2
  /\ gen[1].emitted[1].source = FromCache
  /\ \A k \in 1 .. Len(gen[1].emitted[1].data) :
       "alert" \in DOMAIN gen[1].emitted[1].data[k]
  /\ "alert" \in fetch[gen[1].emitted[2].source].sent
  /\ Cardinality(RowsFrom(1, gen[1].emitted[2].source)) = 1
  /\ \E k \in 1 .. Len(gen[1].emitted[2].data) :
       "alert" \in DOMAIN gen[1].emitted[2].data[k]
  /\ \E k \in 1 .. Len(gen[1].emitted[2].data) :
       "alert" \notin DOMAIN gen[1].emitted[2].data[k]

\* A stored range list is sorted by min and no range of it overlaps or
\* touches the next.
SortedApart(list) ==
  /\ \A i \in 1 .. Len(list) : Len(list[i]) = 2 /\ list[i][1] <= list[i][2]
  /\ \A i \in 1 .. Len(list) - 1 : list[i][2] < list[i + 1][1]

\* C20: after a write-back on a store whose range lists are sorted and
\* whose ranges neither overlap nor touch, they still are: the written range
\* is merged with the stored ranges it overlaps or borders.
C20_RangeListsSortedApart ==
  \A d \in DBs : \A col \in DOMAIN store[d].ranges : SortedApart(store[d].ranges[col])

\* The request over [0, 1] found avg stored from revision 1 on and no row
\* cached; its final result ended at revision 1, and the range written,
\* [0, 1], was merged with the stored range it borders.
C20_Witness ==
  /\ WriteBackCommitted(1)
  /\ request[1].revisionRange_ = fromExplicitRange(0, 1)
  /\ cacheResult[1].hasData
  /\ Len(cacheResult[1].data) = 0
  /\ cacheResult[1].availableRangeByCol["avg"] = fromExplicitRange(1, 1)
  /\ gen[1].mergedData[Len(gen[1].mergedData)].revision = 1
  /\ store["db1"].ranges["avg"] = << << 0, 2 >> >>


\* ------------------------------------------------------------------ C21

\* C21: Range.findDifference(a, b) throws when an argument is not given;
\* it returns [] when a is empty and [a] when b is empty or does not meet a;
\* otherwise it returns, in this order, [a.min, b.min] if a.min < b.min and
\* [b.max, a.max] if b.max < a.max.
C21_FindDifferenceTable ==
  call.op = "findDifference" =>
    LET a == call.args[1]
        b == call.args[2]
    IN IF a = undefined \/ b = undefined THEN call.result = Thrown
       ELSE IF a.isEmpty THEN call.result = << >>
       ELSE IF b.isEmpty \/ b.max < a.min \/ a.max < b.min
         THEN call.result = << a >>
       ELSE call.result =
              (IF a.min < b.min
                 THEN << fromExplicitRange(a.min, b.min) >> ELSE << >>)
              \o
              (IF b.max < a.max
                 THEN << fromExplicitRange(b.max, a.max) >> ELSE << >>)

\* b is a single point inside a: two pieces that meet at b.
C21_Witness ==
  /\ call.op = "findDifference"
  /\ call.args = << fromExplicitRange(0, 2), fromExplicitRange(1, 1) >>
  /\ call.result = << fromExplicitRange(0, 1), fromExplicitRange(1, 2) >>

\* ------------------------------------------------------------------ C22

\* C22: findLowIndexInSortedArray returns 0 on an empty array, and on an
\* array sorted by key the smallest index whose key is >= loVal, or the
\* length of the array if there is none.
C22_LowIndex ==
  call.op = "findLowIndexInSortedArray" =>
    LET ary == call.args[1]
        loVal == call.args[2]
        hits == { i \in 0 .. Len(ary) - 1 : ary[i + 1].revision >= loVal }
    IN call.result =
         (IF hits = {} THEN Len(ary)
          ELSE CHOOSE i \in hits : \A k \in hits : i <= k)

\* ------------------------------------------------------------------ C23

\* The write at the head of the queue carries rows and runs in this step.
WritesRows ==
  /\ Len(writeQueue) > 0
  /\ Head(writeQueue).hasData
  /\ writeQueue' = Tail(writeQueue)

\* The range a write extends the stored lists with.
WrittenRange(write) ==
  << request[write.req].revisionRange_.min,
     write.data[Len(write.data)].revision >>

\* A range of the list contains the range.
ListContains(list, range) ==
  \E i \in 1 .. Len(list) : list[i][1] <= range[1] /\ range[2] <= list[i][2]

\* C23: mergeIntoArray is idempotent.  A write-back whose range lies within
\* a range of the stored list of a column (as one of its ranges or inside
\* one) leaves the list as it was, and writing the same rows once more
\* leaves every list as the first write left it.
C23_MergeIdempotent ==
  [][ WritesRows =>
        LET write == Head(writeQueue)
            req == request[write.req]
        IN /\ \A col \in RangeColumns(req.columns_) :
                (/\ col \in DOMAIN store[req.db].ranges
                 /\ ListContains(store[req.db].ranges[col], WrittenRange(write)))
                  => store'[req.db].ranges[col] = store[req.db].ranges[col]
           /\ writeRanges_(store'[req.db].ranges, write.data, req)
                = store'[req.db].ranges ]_vars

\* The request over [2, 2] found avg stored on [0, 0] and on [2, 2] and the
\* row of revision 2 cached; the range written, [2, 2], is in the list,
\* which is as it was.
C23_Witness ==
  /\ WriteBackCommitted(1)
  /\ request[1].revisionRange_ = fromExplicitRange(2, 2)
  /\ cacheResult[1].hasData
  /\ cacheResult[1].availableRangeByCol["avg"] = fromExplicitRange(2, 2)
  /\ gen[1].mergedData[Len(gen[1].mergedData)].revision = 2
  /\ store["db1"].ranges["avg"] = << << 0, 0 >>, << 2, 2 >> >>

\* ------------------------------------------------------------------ C24

\* The revisions of the rows of a snapshot.
RevisionsOf(data) == { data[k].revision : k \in 1 .. Len(data) }

\* C24: across the successive snapshots of one request the set of revisions
\* in data never shrinks: a revision of an earlier snapshot is in every
\* later one.
C24_RevisionsNeverShrink ==
  \A r \in Reqs :
    \A i \in 1 .. Len(gen[r].emitted), j \in 1 .. Len(gen[r].emitted) :
      i < j => RevisionsOf(gen[r].emitted[i].data)
                 \subseteq RevisionsOf(gen[r].emitted[j].data)

\* The cached snapshot held a row; the response merged next brought a row
\* of a lower revision, spliced in before it.
C24_Witness ==
  /\ Len(gen[1].emitted) >= 2
  /\ gen[1].emitted[1].source = FromCache
  /\ RevisionsOf(gen[1].emitted[1].data) # {}
  /\ \E new \in RevisionsOf(gen[1].emitted[2].data)
                  \ RevisionsOf(gen[1].emitted[1].data) :
       \A old \in RevisionsOf(gen[1].emitted[1].data) : new < old

\* ------------------------------------------------------------------ C26

\* The write at the head of the queue runs in this step on database d with
\* a row of revision k that supplies value v for field f.
Supplies(d, k, f, v) ==
  /\ WritesRows
  /\ request[Head(writeQueue).req].db = d
  /\ \E i \in 1 .. Len(Head(writeQueue).data) :
       LET datum == Head(writeQueue).data[i]
       IN datum.revision = k /\ f \in DOMAIN datum /\ datum[f] = v

\* C26: whatever is written back, no stored row is removed and a stored row
\* keeps every field it has, with its value unless the write supplies a
\* value for that field of that revision, which then is the value stored.
C26_StoredFieldsKept ==
  [][ \A d \in DBs : \A k \in DOMAIN store[d].data :
        /\ k \in DOMAIN store'[d].data
        /\ \A f \in DOMAIN store[d].data[k] :
             /\ f \in DOMAIN store'[d].data[k]
             /\ store'[d].data[k][f] # store[d].data[k][f]
                  => Supplies(d, k, f, store'[d].data[k][f]) ]_vars

\* Every stored row carried avg 0 and alert 0.  The alert slice of a request
\* over [0, MaxRev] was answered with the row of revision 1, and the final
\* result, whose other rows have no alert, was written: the row of revision
\* 1 has the new alert, the others keep theirs.
C26_Witness ==
  /\ WriteBackCommitted(1)
  /\ request[1].columns_ = {"revision", "avg", "alert"}
  /\ request[1].revisionRange_ = fromExplicitRange(0, MaxRev)
  /\ gen[1].final = "response"
  /\ \E k \in 1 .. Len(gen[1].mergedData) :
       "alert" \notin DOMAIN gen[1].mergedData[k]
  /\ store["db1"].data[0].alert = 0
  /\ store["db1"].data[1].alert = 1
  /\ store["db1"].data[1].avg = 0

\* ------------------------------------------------------------------ C25

\* One request for avg over [0, MaxRev], on an empty store or on one holding
\* avg on [1, 2], under a scheduler that keeps running whatever can run: the event loop
\* runs every callback that is ready and the backend answers every call.
LiveRequests ==
  { [ columns_ |-> {"revision", "avg"}, revisionRange_ |-> range, db |-> "db1" ] :
      range \in { fromExplicitRange(0, MaxRev) } }

InitLive ==
  /\ \E db \in GenStores :
       store = [ d \in DBs |-> IF d = "db1" THEN db ELSE EmptyStore ]
  /\ now = 0
  /\ request = [ r \in Reqs |-> NoRequest ]
  /\ Quiet

NextLive ==
  /\ \/ \E req \in LiveRequests : Construct(1, req)
     \/ \E r \in Reqs : ReadCache(r)
     \/ \E r \in Reqs : Plan(r)
     \/ \E r \in Reqs : GenStart(r)
     \/ \E r \in Reqs : StartRace(r)
     \/ \E id \in DOMAIN fetch, status \in Statuses : BackendAnswer(id, status)
     \/ \E r \in Reqs : \E k \in 1 .. Len(gen[r].sliceResponses) : Consume(r, k)
     \/ \E r \in Reqs : Finish(r)
     \/ \E r \in Reqs : onResponded(r)
     \/ RunWrite
  /\ UNCHANGED call

SpecFair == InitLive /\ [][NextLive]_vars /\ WF_vars(NextLive)

\* C25: every request that is registered is eventually deregistered
\* (onResponded is called), whatever happens while it runs.
C25_EventuallyDeregistered ==
  \A r \in Reqs : (r \in registry) ~> (r \notin registry)

\* ------------------------------------------------------------------ C28

\* Two requests for avg of one identity in flight together on an empty
\* cache, each over a single revision or over a longer range: every request
\* plans one slice.
PointRanges ==
  { fromExplicitRange(0, 0), fromExplicitRange(1, MaxRev + 1),
    fromExplicitRange(0, MaxRev + 1) }

PointRequests ==
  { [ columns_ |-> {"revision", "avg"}, revisionRange_ |-> range, db |-> "db1" ] :
      range \in PointRanges }

InitPoint ==
  /\ store = [ d \in DBs |-> EmptyStore ]
  /\ now = 0
  /\ request = [ r \in Reqs |-> NoRequest ]
  /\ Quiet

NextPoint ==
  /\ \/ \E r \in Reqs, req \in PointRequests : Construct(r, req)
     \/ \E r \in Reqs : ReadCache(r)
     \/ \E r \in Reqs : Plan(r)
     \/ \E r \in Reqs : GenStart(r)
     \/ \E r \in Reqs : Coalesce(r)
     \/ \E r \in Reqs : StartRace(r)
     \/ \E id \in DOMAIN fetch, status \in CoStatuses : BackendAnswer(id, status)
     \/ \E r \in Reqs : \E k \in 1 .. Len(gen[r].sliceResponses) : Consume(r, k)
     \/ \E r \in Reqs : Finish(r)
     \/ \E r \in Reqs : onResponded(r)
     \/ RunWrite
  /\ UNCHANGED call

SpecPoint == InitPoint /\ [][NextPoint]_vars

\* C28: the coalescing of r with a peer removes a column from a planned
\* slice of r only if a slice of that peer carries the column over a range
\* that contains the whole range of the planned slice, also when the planned
\* slice spans a single revision.
C28_RemovedOnlyWhenContained ==
  [][ \A r \in Reqs :
        (pc[r] = "coalesce" /\ plan[r] # NoPlan /\ plan'[r] # NoPlan) =>
          \A i \in plan[r].slices :
            \A col \in ColumnsOf(plan[r], i) \ ColumnsOf(plan'[r], i) :
              \E p \in gen'[r].coalesced \ gen[r].coalesced :
                \E j \in plan[p].slices :
                  /\ col \in ColumnsOf(plan[p], j)
                  /\ Contains(plan[p].slice[j].revisionRange,
                              plan[r].slice[i].revisionRange) ]_vars

\* ------------------------------------------------------------------ C29

\* Slice i of r is matched by a slice of peer p: the peer slice passes the
\* test of the coalescer for i and carries a column that i carries.
Matched(r, i, p) ==
  \E j \in plan[p].slices :
    /\ Covers(plan[r].slice[i], plan[p].slice[j])
    /\ CarriedByBoth(r, i, p, j) # {}

\* C29: the coalescing of r with a peer leaves every planned slice of r that
\* no slice of the peer matches as it was: the slice stays planned, with the
\* columns it had.
C29_OtherSlicesUntouched ==
  [][ \A r \in Reqs :
        (pc[r] = "coalesce" /\ plan[r] # NoPlan /\ plan'[r] # NoPlan) =>
          \A p \in gen'[r].coalesced \ gen[r].coalesced :
            \A i \in plan[r].slices :
              ~ Matched(r, i, p) =>
                /\ i \in plan'[r].slices
                /\ ColumnsOf(plan'[r], i) = ColumnsOf(plan[r], i) ]_vars

\* ------------------------------------------------------------------ C30

\* The doubled points of the request range of r over which col was read from
\* the cache as available.
CachedPts(r, col) ==
  IF col \in DOMAIN cacheResult[r].availableRangeByCol
    THEN Pts(cacheResult[r].availableRangeByCol[col])
    ELSE {}

\* The doubled points of the ranges of the slices that carried col and whose
\* response, with status 200, request r received.
ReturnedPts(r, col) ==
  UNION { Pts(plan[o.id[1]].slice[o.id[2]].revisionRange) :
            o \in { x \in gen[r].observed :
                      /\ ~ x.error
                      /\ x.status = HTTP_OK
                      /\ col \in fetch[x.id].sent } }

\* C30: once the write-back of a request has been committed, a column is
\* stored as available, within the request range, only over revisions that
\* were available in the cache or that lie in the range of a slice that
\* carried the column and was answered with success.
C30_AvailableOnlyIfReturned ==
  \A r \in Reqs :
    WriteBackCommitted(r) =>
      \A col \in RangeColumns(request[r].columns_) :
        StoredPts(r, col) \subseteq CachedPts(r, col) \cup ReturnedPts(r, col)

\* ------------------------------------------------------------------ C27

\* Two slices overlap in time when each starts before the other ends.
OverlapInTime(x, y) == x.start < y.end /\ y.start < x.end

NoOverlapInRows(subRows) ==
  \A j \in 1 .. Len(subRows) :
    \A m \in 1 .. Len(subRows[j]), n \in 1 .. Len(subRows[j]) :
      m # n => ~OverlapInTime(subRows[j][m], subRows[j][n])

\* Every slice below row 0 lies within a slice of the row above it.
BoundedByRowAbove(subRows) ==
  \A j \in 2 .. Len(subRows) :
    \A m \in 1 .. Len(subRows[j]) :
      \E n \in 1 .. Len(subRows[j - 1]) :
        bounds(subRows[j - 1][n], subRows[j][m])

\* C27: for any list of slices buildSubRows_ returns rows in
\* which no two slices of a row overlap in time, and every slice of row
\* j + 1 is bounded by a slice of row j.
C27_RowsNeverOverlap ==
  call.op = "buildSubRows_" =>
    /\ NoOverlapInRows(call.result)
    /\ BoundedByRowAbove(call.result)

\* ------------------------------------------------------------------ C31

\* The slices whose successful response request r received and that were
\* fetched with alert among their columns.
AlertResponses(r) ==
  { o.id : o \in { x \in gen[r].observed :
                     ~ x.error /\ "alert" \in fetch[x.id].sent } }

\* C31: once the write-back of a run that refetched alert has been
\* committed, a stored row within the request range carries an alert only if
\* a fresh response supplied an alert for its revision.
C31_NoStaleAlertStored ==
  \A r \in Reqs :
    (WriteBackCommitted(r) /\ AlertResponses(r) # {}) =>
      \A k \in DOMAIN store[request[r].db].data :
        (/\ InRequestRange(r, k)
         /\ "alert" \in DOMAIN store[request[r].db].data[k])
          => \E id \in AlertResponses(r) : \E row \in RowsFrom(r, id) :
               row.revision = k /\ "alert" \in DOMAIN row

\* ------------------------------------------------------------------ C32

\* The row of mergedData with the given revision.
RowAt(data, revision) ==
  data[CHOOSE k \in 1 .. Len(data) : data[k].revision = revision]

\* What the i-th yielded snapshot of r shows now to whoever holds it.  The
\* cached snapshot's data is the array read from the database, whose row
\* objects were copied by reference into mergedData; the data of a slice
\* snapshot is the mergedData array itself.
HeldData(r, i) ==
  IF gen[r].emitted[i].source = FromCache
    THEN [ k \in 1 .. Len(cacheResult[r].data) |->
             RowAt(gen[r].mergedData, cacheResult[r].data[k].revision) ]
    ELSE gen[r].mergedData

\* C32: a snapshot the generator has yielded is not changed by the
\* processing of later slice responses: its rows and their fields are as
\* they were when it was yielded.
C32_YieldedSnapshotsFrozen ==
  \A r \in Reqs :
    \A i \in 1 .. Len(gen[r].emitted) :
      HeldData(r, i) = gen[r].emitted[i].data

====
